---- MODULE Spec2Model ----
(***************************************************************************)
(* Test-plan agent backend: the two LLM providers' generate_test_plan      *)
(* (request, JSON extraction, field mapping, retry with backoff), the      *)
(* orchestrating route that persists the plan, and the export route that   *)
(* reads it back; the tracker routes (ticket fetch, recent tickets, the    *)
(* process-wide tracker client and its reconfiguration), the history       *)
(* views, the user prompt of either provider and the flattening of a       *)
(* rich-text description.                                                  *)
(*                                                                         *)
(* Text is modelled as a sequence of tokens.  A token stands for a run of  *)
(* characters: c is its class, s a string payload, v an integer payload,   *)
(* n the number of characters it stands for, raw the characters of a       *)
(* string literal whose text is itself raw text.  Whitespace is elided.    *)
(***************************************************************************)
EXTENDS Integers, Sequences, FiniteSets, TLC

VARIABLES pc, provider, model, issue, attempt, requests, listRequests,
          sleeps, failures, content, result, usedFallback, plan, error,
          history, exported, log, answer,
          models, sentModel, now,
          jiraClient, jiraSettings, llmSettings, saver, fetcher, recent,
          jiraCalls, req, viewed, template_content, prompt, adf, flat

(* the state of the tracker side, of the read-only views and of the pure
   functions that are checked on their own *)
trackerVars == <<jiraClient, jiraSettings, llmSettings, saver, fetcher,
                 recent, jiraCalls>>
pureVars == <<prompt, adf, flat>>
others == <<trackerVars, req, template_content, viewed, pureVars>>

vars == <<pc, provider, model, issue, attempt, requests, listRequests,
          sleeps, failures, content, result, usedFallback, plan, error,
          history, exported, log, answer, models, sentModel, now, others>>

----------------------------------------------------------------------------
(* Bounds of the model *)

MaxTC == 2
MaxHistory == 1

----------------------------------------------------------------------------
(* Text *)

Tok(c, s, v, n, raw) == [c |-> c, s |-> s, v |-> v, n |-> n, raw |-> raw]

RECURSIVE CharLen(_)
CharLen(t) == IF t = <<>> THEN 0 ELSE Head(t).n + CharLen(Tail(t))

LBrace == Tok("{", "", 0, 1, <<>>)
RBrace == Tok("}", "", 0, 1, <<>>)
LBrack == Tok("[", "", 0, 1, <<>>)
RBrack == Tok("]", "", 0, 1, <<>>)
Comma == Tok(",", "", 0, 1, <<>>)
NullTok == Tok("null", "", 0, 4, <<>>)
TrueTok == Tok("true", "", 0, 4, <<>>)
FalseTok == Tok("false", "", 0, 5, <<>>)
Prose(n) == Tok("p", "", 0, n, <<>>)
NumTok(v) == Tok("num", "", v, Len(ToString(v)), <<>>)
StrTok(s, raw) == Tok("str", s, 0, Len(s) + CharLen(raw) + 2, raw)
KeyTok(s) == Tok("key", s, 0, Len(s) + 3, <<>>)

(* str.find / str.rfind for a one-character needle: the index of the first
   / last token of class c, 0-based as in Python, -1 when there is none. *)
RECURSIVE FindFrom(_, _, _)
FindFrom(t, c, i) ==
    IF i > Len(t) THEN -1
    ELSE IF t[i].c = c THEN i - 1
    ELSE FindFrom(t, c, i + 1)

find(t, c) == FindFrom(t, c, 1)

RECURSIVE RFindFrom(_, _, _)
RFindFrom(t, c, i) ==
    IF i < 1 THEN -1
    ELSE IF t[i].c = c THEN i - 1
    ELSE RFindFrom(t, c, i - 1)

rfind(t, c) == RFindFrom(t, c, Len(t))

(* t[start:end] for 0 <= start, 0 <= end: empty when end <= start. *)
Slice(t, start, end) ==
    LET e == IF end > Len(t) THEN Len(t) ELSE end
    IN  IF e <= start THEN <<>> ELSE SubSeq(t, start + 1, e)

(* t[:k] counted in characters: a token that straddles the limit is cut. *)
RECURSIVE Prefix(_, _)
Prefix(t, k) ==
    IF t = <<>> \/ k <= 0 THEN <<>>
    ELSE IF Head(t).n <= k THEN <<Head(t)>> \o Prefix(Tail(t), k - Head(t).n)
    ELSE IF Head(t).c = "p" THEN <<[Head(t) EXCEPT !.n = k]>>
    ELSE <<[Head(t) EXCEPT !.n = k, !.c = "cut"]>>

----------------------------------------------------------------------------
(* JSON values and json.loads / json.dumps *)

NullV == [k |-> "null"]
NumV(v) == [k |-> "num", v |-> v]
BoolV(b) == [k |-> "bool", b |-> b]
StrV(s, raw) == [k |-> "str", s |-> s, raw |-> raw]
ArrV(items) == [k |-> "arr", items |-> items]
ObjV(f) == [k |-> "obj", f |-> f]

Put(f, key, v) == [x \in DOMAIN f \cup {key} |-> IF x = key THEN v ELSE f[x]]

DecodeError == [ok |-> FALSE, v |-> NullV, next |-> 0]
Decoded(v, next) == [ok |-> TRUE, v |-> v, next |-> next]

RECURSIVE ParseValue(_, _), ParseMembers(_, _, _), ParseItems(_, _, _)

ParseValue(t, i) ==
    IF i > Len(t) THEN DecodeError
    ELSE CASE t[i].c = "num" -> Decoded(NumV(t[i].v), i + 1)
           [] t[i].c = "null" -> Decoded(NullV, i + 1)
           [] t[i].c = "true" -> Decoded(BoolV(TRUE), i + 1)
           [] t[i].c = "false" -> Decoded(BoolV(FALSE), i + 1)
           [] t[i].c = "str" -> Decoded(StrV(t[i].s, t[i].raw), i + 1)
           [] t[i].c = "{" ->
                IF i + 1 <= Len(t) /\ t[i + 1].c = "}"
                THEN Decoded(ObjV(<<>>), i + 2)
                ELSE ParseMembers(t, i + 1, <<>>)
           [] t[i].c = "[" ->
                IF i + 1 <= Len(t) /\ t[i + 1].c = "]"
                THEN Decoded(ArrV(<<>>), i + 2)
                ELSE ParseItems(t, i + 1, <<>>)
           [] OTHER -> DecodeError

ParseMembers(t, i, f) ==
    IF i > Len(t) \/ t[i].c # "key" THEN DecodeError
    ELSE LET r == ParseValue(t, i + 1)
         IN  IF ~r.ok \/ r.next > Len(t) THEN DecodeError
             ELSE IF t[r.next].c = "}"
                  THEN Decoded(ObjV(Put(f, t[i].s, r.v)), r.next + 1)
             ELSE IF t[r.next].c = ","
                  THEN ParseMembers(t, r.next + 1, Put(f, t[i].s, r.v))
             ELSE DecodeError

ParseItems(t, i, items) ==
    LET r == ParseValue(t, i)
    IN  IF ~r.ok \/ r.next > Len(t) THEN DecodeError
        ELSE IF t[r.next].c = "]"
             THEN Decoded(ArrV(Append(items, r.v)), r.next + 1)
        ELSE IF t[r.next].c = ","
             THEN ParseItems(t, r.next + 1, Append(items, r.v))
        ELSE DecodeError

(* json.loads: one value spanning the whole text, else JSONDecodeError. *)
loads(t) ==
    LET r == ParseValue(t, 1)
    IN  IF r.ok /\ r.next = Len(t) + 1 THEN r ELSE DecodeError

(* Keys in the order the dictionaries of this program are built. *)
KeyOrder == <<"id", "title", "source_issue", "generated_at",
              "executive_summary",
              "description", "entry_criteria", "impact", "mitigation",
              "risks_mitigations", "steps", "priority", "test_type",
              "test_cases", "metadata", "provider", "model", "total_tests",
              "comprehensive">>

RECURSIVE dumps(_), DumpItems(_, _), DumpMembers(_, _, _)

dumps(v) ==
    CASE v.k = "null" -> <<NullTok>>
      [] v.k = "num" -> <<NumTok(v.v)>>
      [] v.k = "bool" -> IF v.b THEN <<TrueTok>> ELSE <<FalseTok>>
      [] v.k = "str" -> <<StrTok(v.s, v.raw)>>
      [] v.k = "arr" -> <<LBrack>> \o DumpItems(v.items, 1) \o <<RBrack>>
      [] v.k = "obj" -> <<LBrace>> \o DumpMembers(v.f, 1, TRUE) \o <<RBrace>>

DumpItems(items, i) ==
    IF i > Len(items) THEN <<>>
    ELSE (IF i > 1 THEN <<Comma>> ELSE <<>>) \o dumps(items[i])
         \o DumpItems(items, i + 1)

DumpMembers(f, i, first) ==
    IF i > Len(KeyOrder) THEN <<>>
    ELSE IF KeyOrder[i] \in DOMAIN f
         THEN (IF first THEN <<>> ELSE <<Comma>>) \o <<KeyTok(KeyOrder[i])>>
              \o dumps(f[KeyOrder[i]]) \o DumpMembers(f, i + 1, FALSE)
         ELSE DumpMembers(f, i + 1, first)

----------------------------------------------------------------------------
(* Field mapping: raw JSON object -> ComprehensiveTestPlan *)

Issues == {[key |-> "QA-7", summary |-> "Login"]}

Str(s) == StrV(s, <<>>)

(* dict.get(key, default) *)
get(d, key, default) == IF key \in DOMAIN d.f THEN d.f[key] ELSE default

(* f"TC-{n:03d}" *)
FormatId(n) ==
    "TC-" \o (IF n < 10 THEN "00" ELSE IF n < 100 THEN "0" ELSE "")
          \o ToString(n)

(* The id given to the entry at 0-based enumerate index i that has none. *)
DefaultIdMutant(i) == FormatId(i)
DefaultId(i) == FormatId(i + 1)

DefaultPriority == "Medium"
DefaultTestType == "Functional"
DefaultImpact == "Medium"

(* Iterating a JSON value with for/enumerate: a list yields its items, a
   string its characters, a dict its keys; anything else is a TypeError. *)
Iterate(v) ==
    CASE v.k = "arr" -> [ok |-> TRUE, items |-> v.items]
      [] v.k = "str" ->
           [ok |-> TRUE,
            items |-> IF v.s = "" /\ v.raw = <<>> THEN <<>> ELSE <<Str(v.s)>>]
      [] v.k = "obj" ->
           [ok |-> TRUE,
            items |-> IF DOMAIN v.f = {} THEN <<>>
                      ELSE <<Str(CHOOSE x \in DOMAIN v.f : TRUE)>>]
      [] OTHER -> [ok |-> FALSE, items |-> <<>>]

IsStr(v) == v.k = "str"
IsStrList(v) ==
    v.k = "arr" /\ \A i \in 1..Len(v.items) : IsStr(v.items[i])
StrList(v) == [i \in 1..Len(v.items) |-> v.items[i].s]

(* Keyword arguments of TestCase(...) for the entry tc at enumerate index i *)
TestCaseArgs(tc, i) ==
    [id |-> get(tc, "id", Str(DefaultId(i))),
     title |-> get(tc, "title", Str("")),
     description |-> get(tc, "description", Str("")),
     steps |-> get(tc, "steps", ArrV(<<>>)),
     priority |-> get(tc, "priority", Str(DefaultPriority)),
     test_type |-> get(tc, "test_type", Str(DefaultTestType))]

(* pydantic validation of TestCase: str fields, List[str] fields *)
ValidTestCase(a) ==
    /\ IsStr(a.id) /\ IsStr(a.title) /\ IsStr(a.description)
    /\ IsStrList(a.steps) /\ IsStr(a.priority) /\ IsStr(a.test_type)

TestCase(a) ==
    [id |-> a.id.s, title |-> a.title.s,
     description |-> [s |-> a.description.s, raw |-> a.description.raw],
     steps |-> StrList(a.steps), priority |-> a.priority.s,
     test_type |-> a.test_type.s]

RiskArgs(r) ==
    [description |-> get(r, "description", Str("")),
     impact |-> get(r, "impact", Str(DefaultImpact)),
     mitigation |-> get(r, "mitigation", Str(""))]

ValidRisk(a) == IsStr(a.description) /\ IsStr(a.impact) /\ IsStr(a.mitigation)

RiskItem(a) ==
    [description |-> a.description.s, impact |-> a.impact.s,
     mitigation |-> a.mitigation.s]

Raised(cause) == [ok |-> FALSE, cause |-> cause, v |-> <<>>]
Built(v) == [ok |-> TRUE, cause |-> "", v |-> v]

(* The loop "for i, tc in enumerate(data.get('test_cases', []))": the list
   built so far is acc, i the 1-based position of the next entry. *)
RECURSIVE ParseTestCasesFrom(_, _, _)
ParseTestCasesFrom(items, i, acc) ==
    IF i > Len(items) THEN Built(acc)
    ELSE IF items[i].k # "obj" THEN Raised("AttributeError")
    ELSE IF ~ValidTestCase(TestCaseArgs(items[i], i - 1))
         THEN Raised("ValidationError")
    ELSE ParseTestCasesFrom(items, i + 1,
                            Append(acc, TestCase(TestCaseArgs(items[i], i - 1))))

ParseTestCasesMutant(data) ==
    LET it == Iterate(get(data, "test_cases", ArrV(<<>>)))
    IN  IF ~it.ok THEN Raised("TypeError")
        ELSE ParseTestCasesFrom(it.items, 2, <<>>)
ParseTestCases(data) ==
    LET it == Iterate(get(data, "test_cases", ArrV(<<>>)))
    IN  IF ~it.ok THEN Raised("TypeError")
        ELSE ParseTestCasesFrom(it.items, 1, <<>>)

RECURSIVE ParseRisksFrom(_, _, _)
ParseRisksFrom(items, i, acc) ==
    IF i > Len(items) THEN Built(acc)
    ELSE IF items[i].k # "obj" THEN Raised("AttributeError")
    ELSE IF ~ValidRisk(RiskArgs(items[i])) THEN Raised("ValidationError")
    ELSE ParseRisksFrom(items, i + 1, Append(acc, RiskItem(RiskArgs(items[i]))))

ParseRisks(data) ==
    LET it == Iterate(get(data, "risks_mitigations", ArrV(<<>>)))
    IN  IF ~it.ok THEN Raised("TypeError")
        ELSE ParseRisksFrom(it.items, 1, <<>>)

TotalTestsMutant(test_cases) ==
    Cardinality({test_cases[i].id : i \in 1..Len(test_cases)})
TotalTests(test_cases) == Len(test_cases)

Metadata(prov, mdl, test_cases) ==
    [provider |-> prov, model |-> mdl,
     total_tests |-> TotalTests(test_cases), comprehensive |-> TRUE]

(* Everything after the JSON object is in hand: the four parsing loops and
   the ComprehensiveTestPlan constructor.  The schedule and resource loops
   and the remaining narrative fields follow the pattern of the risks loop
   and of executive_summary and are not repeated. *)
MapFields(data, iss, prov, mdl, t) ==
    IF data.k # "obj" THEN Raised("AttributeError")
    ELSE LET tcs == ParseTestCases(data)
             risks == ParseRisks(data)
             title == get(data, "title", Str("Test Plan: " \o iss.summary))
             summary == get(data, "executive_summary", Str(""))
             entry == get(data, "entry_criteria", ArrV(<<>>))
         IN  IF ~tcs.ok THEN Raised(tcs.cause)
             ELSE IF ~risks.ok THEN Raised(risks.cause)
             ELSE IF ~(IsStr(title) /\ IsStr(summary) /\ IsStrList(entry))
                  THEN Raised("ValidationError")
             ELSE Built([title |-> title.s,
                         source_issue |-> iss.key,
                         generated_at |-> t,
                         executive_summary |-> summary.s,
                         entry_criteria |-> StrList(entry),
                         risks_mitigations |-> risks.v,
                         test_cases |-> tcs.v,
                         metadata |-> Metadata(prov, mdl, tcs.v)])

----------------------------------------------------------------------------
(* Provider responses the model draws from *)

Dict(pairs) ==
    [x \in {pairs[i][1] : i \in 1..Len(pairs)} |->
        pairs[CHOOSE i \in 1..Len(pairs) : pairs[i][1] = x][2]]

Absent == [k |-> "absent"]

Object(pairs) == ObjV(Dict(SelectSeq(pairs, LAMBDA q : q[2] # Absent)))

SeqsUpTo(S, n) == UNION {[1..m -> S] : m \in 0..n}

TCEntries ==
    { ObjV(<<>>),
      Object(<< <<"id", Str("TC-002")>> >>),
      Object(<< <<"id", Str("A")>>, <<"priority", Str("High")>>,
                <<"test_type", Str("UI")>>, <<"steps", ArrV(<<Str("s1")>>)>> >>),
      Object(<< <<"id", NullV>> >>),
      NumV(7) }

RiskLists ==
    { <<ObjV(<<>>)>>, <<Object(<< <<"impact", Str("High")>> >>)>> }

PlanObjects ==
    { Object(<< <<"title", t>>, <<"test_cases", tcs>>,
                <<"risks_mitigations", rs>> >>) :
        t \in {Absent, Str("T")},
        tcs \in {Absent} \cup {ArrV(l) : l \in SeqsUpTo(TCEntries, MaxTC)},
        rs \in {Absent} \cup {ArrV(l) : l \in RiskLists} }

OddObjects ==
    { Object(<< <<"test_cases", NumV(3)>> >>),
      Object(<< <<"test_cases", Str("")>> >>),
      Object(<< <<"title", NumV(1)>> >>),
      Object(<< <<"risks_mitigations", ArrV(<<Str("r")>>)>> >>),
      Object(<< <<"entry_criteria", ArrV(<<Str("c1")>>)>>,
                <<"executive_summary", Str("E")>> >>) }

NonObjects ==
    { NumV(42), NullV, Str("plan"), BoolV(TRUE), ArrV(<<>>),
      ArrV(<<ObjV(<<>>), ObjV(<<>>)>>) }

Junk ==
    { <<>>, <<Prose(12)>>, <<Prose(500)>>, <<Prose(600)>>,
      <<Prose(499), NumTok(42), Prose(3)>>,
      <<LBrace>>, <<RBrace, Prose(2), LBrace>>, <<LBrace, Prose(2), RBrace>>,
      <<Prose(499), LBrace, KeyTok("title")>> }

Wrapped(v) == <<Prose(22)>> \o dumps(v) \o <<Prose(16)>>

Responses ==
    {dumps(v) : v \in PlanObjects \cup OddObjects \cup NonObjects}
    \cup {Wrapped(v) : v \in PlanObjects \cup NonObjects}
    \cup Junk

----------------------------------------------------------------------------
(* The providers *)

(* no request to the generate route is in progress *)
NoReq ==
    [ticket_id |-> <<>>, template_id |-> "none", provider |-> "",
     client |-> "none", sent |-> <<>>, calls |-> 0, status |-> 0,
     detail |-> ""]

(* no response of a read-only route yet *)
NoView == [route |-> "", items |-> <<>>]

NoPlan == [k |-> "none"]
NoError == [kind |-> "", cause |-> "", attempts |-> 0]

max_retries_mutant == 3 + 1
max_retries == 3

BackoffMutant(a) == 2 * a
Backoff(a) == 2 ^ a

DescriptionLimit == 500

(* OllamaProvider.generate_test_plan, "Try to extract JSON" *)
ExtractJsonMutant(c) ==
    LET start == find(c, "{")
        end == find(c, "}") + 1
    IN  IF start # -1 /\ end # 0 THEN loads(Slice(c, start, end)) ELSE loads(c)
ExtractJson(c) ==
    LET start == find(c, "{")
        end == rfind(c, "}") + 1
    IN  IF start # -1 /\ end # 0 THEN loads(Slice(c, start, end)) ELSE loads(c)

(* OllamaProvider.generate_test_plan, "Fallback structure" *)
FallbackDescriptionMutant(c) == StrV("", c)
FallbackDescription(c) == StrV("", Prefix(c, DescriptionLimit))

FallbackResult(c, iss) ==
    Object(<<
      <<"title", Str("Test Plan: " \o iss.summary)>>,
      <<"executive_summary", Str("Test plan for " \o iss.key)>>,
      <<"entry_criteria",
        ArrV(<<Str("Code is deployed"), Str("Test data is prepared")>>)>>,
      <<"risks_mitigations",
        ArrV(<<Object(<< <<"description", Str("Delays")>>,
                         <<"impact", Str("Medium")>>,
                         <<"mitigation", Str("Buffer time")>> >>)>>)>>,
      <<"test_cases",
        ArrV(<<Object(<< <<"id", Str("TC-001")>>,
                         <<"title", Str("Verify " \o iss.summary)>>,
                         <<"description", FallbackDescription(c)>>,
                         <<"steps", ArrV(<<Str("Execute test")>>)>>,
                         <<"priority", Str("High")>>,
                         <<"test_type", Str("Functional")>> >>)>>)>> >>)

(* One pass through the body of the retry loop once the request has
   answered with the text c: the decoded object, whether the fallback
   structure was used, and the plan or the exception. *)
GroqBody(c, iss, mdl, t) ==
    LET r == loads(c)
    IN  IF ~r.ok
        THEN [data |-> NullV, fallback |-> FALSE, out |-> Raised("JSONDecodeError")]
        ELSE [data |-> r.v, fallback |-> FALSE,
              out |-> MapFields(r.v, iss, "groq", mdl, t)]

OllamaBody(c, iss, mdl, t) ==
    LET r == ExtractJson(c)
        data == IF r.ok THEN r.v ELSE FallbackResult(c, iss)
    IN  [data |-> data, fallback |-> ~r.ok,
         out |-> MapFields(data, iss, "ollama", mdl, t)]

Body(p, c, iss, mdl, t) ==
    IF p = "groq" THEN GroqBody(c, iss, mdl, t)
    ELSE OllamaBody(c, iss, mdl, t)

ProviderConfigs ==
    { <<"groq", "llama-3.3-70b-versatile">>, <<"ollama", "">>,
      <<"ollama", "mistral">> }

ModelLists == { <<>>, <<"llama3">>, <<"phi3", "llama3">> }

(* routes/testplan.py builds the provider and calls generate_test_plan;
   the local provider with no model goes on to list the models first. *)
GenerateTestPlan(cfg, iss) ==
    /\ pc = "idle"
    /\ provider' = cfg[1]
    /\ model' = cfg[2]
    /\ issue' = iss
    /\ pc' = IF cfg[1] = "ollama" /\ cfg[2] = "" THEN "list_models"
             ELSE "attempt"
    /\ UNCHANGED <<attempt, requests, listRequests, sleeps, failures, content,
                   result, usedFallback, plan, error, history, exported, log, answer, models, sentModel,
                   now, others>>

(* list_models raises: the request or raise_for_status failed *)
ListModelsFails ==
    /\ pc = "list_models"
    /\ listRequests' = listRequests + 1
    /\ pc' = "raised"
    /\ error' = [kind |-> "RequestError", cause |-> "RequestError",
                 attempts |-> 0]
    /\ UNCHANGED <<provider, model, issue, attempt, requests, sleeps, failures,
                   content, result, usedFallback, plan, history, exported, log, answer, models,
                   sentModel, now, others>>

(* self.model = models[0] *)
FirstModelMutant(ms) == ms[Len(ms)]
FirstModel(ms) == ms[1]

ListModelsReturns(ms) ==
    /\ pc = "list_models"
    /\ listRequests' = listRequests + 1
    /\ models' = ms
    /\ IF ms = <<>>
       THEN /\ pc' = "raised"
            /\ error' = [kind |-> "NoModels", cause |-> "NoModels",
                         attempts |-> 0]
            /\ UNCHANGED model
       ELSE /\ pc' = "attempt"
            /\ model' = FirstModel(ms)
            /\ UNCHANGED error
    /\ UNCHANGED <<provider, issue, attempt, requests, sleeps, failures,
                   content, result, usedFallback, plan, history, exported, log, answer, sentModel,
                   now, others>>

(* except Exception as e *)
Except(cause, fallback) ==
    /\ failures' = Append(failures, [cause |-> cause, fallback |-> fallback])
    /\ IF attempt = max_retries - 1
       THEN /\ pc' = "raised"
            /\ error' = [kind |-> "GenerationFailed", cause |-> cause,
                         attempts |-> max_retries]
            /\ UNCHANGED sleeps
       ELSE /\ pc' = "sleeping"
            /\ sleeps' = Append(sleeps, Backoff(attempt))
            /\ UNCHANGED error
    /\ UNCHANGED <<provider, model, issue, attempt, content, result,
                   usedFallback, plan, history, exported, log, answer, models, now, others>>

(* the provider request throws (transport error or HTTP error status) *)
RequestFails ==
    /\ pc = "attempt"
    /\ requests' = requests + 1
    /\ listRequests' = listRequests
    /\ sentModel' = model
    /\ Except("RequestError", FALSE)

(* the provider request answers with the text c *)
Respond(c) ==
    /\ pc = "attempt"
    /\ requests' = requests + 1
    /\ listRequests' = listRequests
    /\ sentModel' = model
    /\ LET b == Body(provider, c, issue, model, now)
       IN  IF b.out.ok
           THEN /\ pc' = "returned"
                /\ now' = now + 1
                /\ content' = c
                /\ result' = b.data
                /\ usedFallback' = b.fallback
                /\ plan' = b.out.v
                /\ UNCHANGED <<provider, model, issue, attempt, sleeps,
                               failures, error, history, exported, log, answer,
                               models, others>>
           ELSE Except(b.out.cause, b.fallback)

(* await asyncio.sleep(2 ** attempt) is over: next iteration of the loop *)
Wake ==
    /\ pc = "sleeping"
    /\ pc' = "attempt"
    /\ attempt' = attempt + 1
    /\ UNCHANGED <<provider, model, issue, requests, listRequests, sleeps,
                   failures, content, result, usedFallback, plan, error,
                   history, exported, log, answer, models, sentModel, now,
                   others>>

----------------------------------------------------------------------------
(* routes/testplan.py: persistence and export *)

StrArr(l) == ArrV([i \in 1..Len(l) |-> Str(l[i])])

(* datetime.isoformat(): the instant as text *)
isoformat(t) == "2024-01-01T00:00:0" \o ToString(t)

(* comprehensive_plan.dict() *)
TestCaseDict(tc) ==
    Object(<< <<"id", Str(tc.id)>>, <<"title", Str(tc.title)>>,
              <<"description", StrV(tc.description.s, tc.description.raw)>>,
              <<"steps", StrArr(tc.steps)>>,
              <<"priority", Str(tc.priority)>>,
              <<"test_type", Str(tc.test_type)>> >>)

RiskDict(r) ==
    Object(<< <<"description", Str(r.description)>>,
              <<"impact", Str(r.impact)>>,
              <<"mitigation", Str(r.mitigation)>> >>)

PlanDict(pl) ==
    Object(<<
      <<"title", Str(pl.title)>>,
      <<"source_issue", Str(pl.source_issue)>>,
      <<"generated_at", Str(isoformat(pl.generated_at))>>,
      <<"executive_summary", Str(pl.executive_summary)>>,
      <<"entry_criteria", StrArr(pl.entry_criteria)>>,
      <<"risks_mitigations",
        ArrV([i \in 1..Len(pl.risks_mitigations) |->
                RiskDict(pl.risks_mitigations[i])])>>,
      <<"test_cases",
        ArrV([i \in 1..Len(pl.test_cases) |-> TestCaseDict(pl.test_cases[i])])>>,
      <<"metadata",
        Object(<< <<"provider", Str(pl.metadata.provider)>>,
                  <<"model", Str(pl.metadata.model)>>,
                  <<"total_tests", NumV(pl.metadata.total_tests)>>,
                  <<"comprehensive", BoolV(pl.metadata.comprehensive)>> >>)>> >>)

(* db.add(HistoryModel(...)) and commit: one more row, under its own id *)
StoreRecordMutant(rows, rec) ==
    IF \E i \in 1..Len(rows) : rows[i].ticket_id = rec.ticket_id
    THEN LET i == CHOOSE k \in 1..Len(rows) : rows[k].ticket_id = rec.ticket_id
         IN  [rows EXCEPT ![i] = [rec EXCEPT !.id = rows[i].id]]
    ELSE Append(rows, rec)
StoreRecord(rows, rec) == Append(rows, rec)

(* generate_test_plan route, "Save to history": the plan returned by the
   provider is stored as JSON text under a fresh id. *)
SaveHistory ==
    /\ pc = "returned"
    /\ history' = StoreRecord(history,
                         [id |-> Len(history) + 1,
                          ticket_id |-> issue.key,
                          ticket_summary |-> issue.summary,
                          test_plan |-> dumps(PlanDict(plan)),
                          generated_at |-> now,
                          provider_used |-> provider])
    /\ now' = now + 1
    /\ pc' = "done"
    /\ UNCHANGED <<provider, model, issue, attempt, requests, listRequests,
                   sleeps, failures, content, result, usedFallback, plan,
                   error, exported, log, answer, models, sentModel, others>>

GenerateFailsMutant ==
    /\ pc = "raised"
    /\ pc' = "failed"
    /\ history' = Append(history,
                         [id |-> Len(history) + 1,
                          ticket_id |-> issue.key,
                          ticket_summary |-> issue.summary,
                          test_plan |-> dumps(NullV),
                          generated_at |-> now,
                          provider_used |-> provider])
    /\ UNCHANGED <<provider, model, issue, attempt, requests, listRequests,
                   sleeps, failures, content, result, usedFallback, plan,
                   error, exported, log, answer, models, sentModel,
                   now, others>>

(* generate_test_plan route, except Exception: HTTP 500 *)
GenerateFails ==
    /\ pc = "raised"
    /\ pc' = "failed"
    /\ UNCHANGED <<provider, model, issue, attempt, requests, listRequests,
                   sleeps, failures, content, result, usedFallback, plan,
                   error, history, exported, log, answer, models, sentModel,
                   now, others>>

(* the response has been sent; the locals of the request are gone *)
EndRequest ==
    /\ pc \in {"done", "failed"}
    /\ pc' = "idle"
    /\ attempt' = 0
    /\ requests' = 0
    /\ listRequests' = 0
    /\ sleeps' = <<>>
    /\ failures' = <<>>
    /\ content' = <<>>
    /\ result' = NullV
    /\ usedFallback' = FALSE
    /\ plan' = NoPlan
    /\ error' = NoError
    /\ models' = <<>>
    /\ sentModel' = ""
    /\ req' = NoReq
    /\ template_content' = <<>>
    /\ UNCHANGED <<provider, model, issue, history, exported, log, answer, now,
                   trackerVars, viewed, pureVars>>

(* the next request to the generate route, while the history has room *)
RequestEnds == Len(history) < MaxHistory /\ EndRequest

Line(kind, s, v) == [kind |-> kind, s |-> s, v |-> v, raw |-> <<>>]

RECURSIVE Bullets(_, _)
Bullets(items, i) ==
    IF i > Len(items) THEN <<>>
    ELSE <<Line("bullet", items[i].s, 0)>> \o Bullets(items, i + 1)

RECURSIVE RiskRows(_, _)
RiskRows(risks, i) ==
    IF i > Len(risks) THEN <<>>
    ELSE <<Line("risk_row",
                get(risks[i], "description", Str("N/A")).s \o " | "
                \o get(risks[i], "impact", Str("N/A")).s \o " | "
                \o get(risks[i], "mitigation", Str("N/A")).s, 0)>>
         \o RiskRows(risks, i + 1)

RisksSectionMutant(risks) ==
    << Line("risk_header", "| Risk | Impact | Mitigation |", 0),
       Line("risk_rule", "|------|--------|------------|", 0) >>
    \o RiskRows(risks, 1)

(* the body of "## Risks & Mitigations" *)
RisksSection(risks) ==
    IF risks # <<>>
    THEN << Line("risk_header", "| Risk | Impact | Mitigation |", 0),
            Line("risk_rule", "|------|--------|------------|", 0) >>
         \o RiskRows(risks, 1)
    ELSE <<Line("text", "No risks identified", 0)>>

RECURSIVE Steps(_, _)
Steps(items, i) ==
    IF i > Len(items) THEN <<>>
    ELSE <<Line("step", items[i].s, i)>> \o Steps(items, i + 1)

RECURSIVE TestCaseLines(_, _)
TestCaseLines(tcs, i) ==
    IF i > Len(tcs) THEN <<>>
    ELSE LET tc == tcs[i].f
         IN  << Line("tc_heading", tc["id"].s \o ": " \o tc["title"].s, 0),
                Line("tc_type", tc["test_type"].s \o " | " \o tc["priority"].s, 0),
                [Line("tc_description", tc["description"].s, 0)
                    EXCEPT !.raw = tc["description"].raw] >>
             \o (IF get(tcs[i], "steps", ArrV(<<>>)).items # <<>>
                 THEN <<Line("h3", "Steps", 0)>> \o Steps(tc["steps"].items, 1)
                 ELSE <<>>)
             \o <<Line("rule", "", 0)>>
             \o TestCaseLines(tcs, i + 1)

(* _convert_to_markdown.  Every heading is rendered; the bodies of Scope &
   Objectives, Test Strategy, Test Environment, Exit Criteria, Test Schedule
   and Resource Requirements, whose fields the plan of the model does not
   carry, are left out. *)
convert_to_markdown(tp) ==
    LET d == tp.f
        is_comprehensive == get(tp, "executive_summary", NullV) # NullV
        entry == get(tp, "entry_criteria", ArrV(<<>>)).items
        risks == get(tp, "risks_mitigations", ArrV(<<>>)).items
    IN  << Line("h1", d["title"].s, 0),
           Line("source", d["source_issue"].s, 0),
           Line("generated", get(tp, "generated_at", Str("N/A")).s, 0),
           Line("total", "", get(d["metadata"], "total_tests", NumV(0)).v) >>
        \o (IF is_comprehensive
            THEN << Line("rule", "", 0),
                    Line("h2", "Executive Summary", 0),
                    Line("text", get(tp, "executive_summary", Str("N/A")).s, 0),
                    Line("h2", "Scope & Objectives", 0),
                    Line("h2", "Test Strategy", 0),
                    Line("h2", "Test Environment", 0),
                    Line("h2", "Entry Criteria", 0) >>
                 \o (IF entry # <<>> THEN Bullets(entry, 1)
                     ELSE <<Line("bullet", "No specific entry criteria defined", 0)>>)
                 \o << Line("h2", "Exit Criteria", 0),
                       Line("h2", "Risks & Mitigations", 0) >>
                 \o RisksSection(risks)
                 \o << Line("h2", "Test Schedule", 0),
                       Line("h2", "Resource Requirements", 0),
                       Line("rule", "", 0), Line("h1", "Test Cases", 0) >>
            ELSE <<Line("rule", "", 0)>>)
        \o TestCaseLines(get(tp, "test_cases", ArrV(<<>>)).items, 1)

ExportFormats == {"markdown", "json", "pdf"}

(* the request body: a dict that has a "format" key or has none *)
ExportBodies ==
    {[k \in {"format"} |-> f] : f \in ExportFormats} \cup {[k \in {} |-> ""]}

NoExport ==
    [history_id |-> 0, body |-> [k \in {} |-> ""], status |-> 0,
     format |-> "", filename |-> "", content |-> <<>>]

(* HTTPException raised by export_test_plan *)
ExportError(history_id, export_data, status) ==
    [NoExport EXCEPT !.history_id = history_id, !.body = export_data,
                     !.status = status]

(* f"{test_plan['source_issue']}_test_plan.{ext}" *)
FilenameMutant(test_plan, ext) ==
    test_plan.f["title"].s \o "_test_plan." \o ext
Filename(test_plan, ext) ==
    test_plan.f["source_issue"].s \o "_test_plan." \o ext

(* json.dumps(test_plan, indent=2) *)
ExportJsonMutant(test_plan) == dumps(StrV("", dumps(test_plan)))
ExportJson(test_plan) == dumps(test_plan)

(* export_test_plan *)
ExportTestPlan(history_id, export_data) ==
    /\ LET format_type == IF "format" \in DOMAIN export_data
                          THEN export_data["format"] ELSE "markdown"
       IN  IF ~\E i \in 1..Len(history) : history[i].id = history_id
           THEN exported' = ExportError(history_id, export_data, 404)
           ELSE LET item == history[CHOOSE i \in 1..Len(history) :
                                        history[i].id = history_id]
                    test_plan == loads(item.test_plan).v
                IN  IF format_type = "markdown"
                    THEN exported' =
                           [history_id |-> history_id, body |-> export_data,
                            status |-> 200, format |-> "markdown",
                            filename |-> Filename(test_plan, "md"),
                            content |-> convert_to_markdown(test_plan)]
                    ELSE IF format_type = "json"
                    THEN exported' =
                           [history_id |-> history_id, body |-> export_data,
                            status |-> 200, format |-> "json",
                            filename |-> Filename(test_plan, "json"),
                            content |-> ExportJson(test_plan)]
                    ELSE exported' = ExportError(history_id, export_data, 400)
    /\ UNCHANGED <<pc, provider, model, issue, attempt, requests, listRequests,
                   sleeps, failures, content, result, usedFallback, plan,
                   error, history, log, answer, models, sentModel, now, others>>

(* the records with the highest generated_at first, at most n of them *)
RECURSIVE LatestRecords(_, _)
LatestRecords(rows, n) ==
    IF rows = {} \/ n = 0 THEN <<>>
    ELSE LET r == CHOOSE x \in rows :
                      \A y \in rows : y.generated_at <= x.generated_at
         IN  <<r>> \o LatestRecords(rows \ {r}, n - 1)

HistoryLimit == 50

(* get_history: the newest records without their plans *)
GetHistory ==
    /\ viewed' =
          [route |-> "history",
           items |->
             LET hs == LatestRecords({history[i] : i \in 1..Len(history)},
                                     HistoryLimit)
             IN  [i \in 1..Len(hs) |->
                    [id |-> hs[i].id, ticket_id |-> hs[i].ticket_id,
                     ticket_summary |-> hs[i].ticket_summary,
                     generated_at |-> isoformat(hs[i].generated_at),
                     provider_used |-> hs[i].provider_used]]]
    /\ UNCHANGED <<pc, provider, model, issue, attempt, requests, listRequests,
                   sleeps, failures, content, result, usedFallback, plan,
                   error, history, exported, log, answer, models, sentModel, now,
                   trackerVars, req, template_content, pureVars>>

(* get_history_item: the record with its plan decoded, or 404 *)
GetHistoryItem(history_id) ==
    /\ IF ~\E i \in 1..Len(history) : history[i].id = history_id
       THEN viewed' = [route |-> "item", items |-> <<>>]
       ELSE LET item == history[CHOOSE i \in 1..Len(history) :
                                    history[i].id = history_id]
            IN  viewed' =
                  [route |-> "item",
                   items |-> <<[id |-> item.id, ticket_id |-> item.ticket_id,
                                ticket_summary |-> item.ticket_summary,
                                test_plan |-> loads(item.test_plan).v,
                                generated_at |-> isoformat(item.generated_at),
                                provider_used |-> item.provider_used]>>]
    /\ UNCHANGED <<pc, provider, model, issue, attempt, requests, listRequests,
                   sleeps, failures, content, result, usedFallback, plan,
                   error, history, exported, log, answer, models, sentModel, now,
                   trackerVars, req, template_content, pureVars>>

(* Responses drawn on by the whole-system specification *)
SystemResponses ==
    { <<Prose(600)>>,
      Wrapped(Object(<< <<"title", Str("T")>> >>)),
      dumps(Object(<< <<"test_cases",
                        ArrV(<<Object(<< <<"id", Str("TC-002")>> >>),
                               ObjV(<<>>)>>)>> >>)),
      dumps(NumV(42)) }

----------------------------------------------------------------------------
(* The tracker side: ticket keys, the global tracker client and its
   configuration, the recent-tickets store and the two routes that fetch a
   ticket. *)

NFetchers == 2
NSavers == 2
MaxCalls == 3

Fetchers == 1..NFetchers
Savers == 1..NSavers

UpperCase == {"A", "B", "C", "D", "E", "F", "G", "H", "I", "J", "K", "L", "M",
              "N", "O", "P", "Q", "R", "S", "T", "U", "V", "W", "X", "Y", "Z"}
Digits == {"0", "1", "2", "3", "4", "5", "6", "7", "8", "9"}

(* the number of characters of the class cls in k from position i on *)
RECURSIVE Run(_, _, _)
Run(k, i, cls) ==
    IF i <= Len(k) /\ k[i] \in cls THEN 1 + Run(k, i + 1, cls) ELSE 0

(* re.match(r"^[A-Z]+-\d+$", ticket_id) on the characters of ticket_id; "$"
   also matches just before a newline that ends the text. *)
MatchesKeyPattern(k) ==
    LET u == Run(k, 1, UpperCase)
        d == Run(k, u + 2, Digits)
        e == u + 1 + d
    IN  /\ u >= 1
        /\ u + 1 <= Len(k)
        /\ k[u + 1] = "-"
        /\ d >= 1
        /\ \/ e = Len(k)
           \/ e = Len(k) - 1 /\ k[Len(k)] = "\n"

(* the characters of a key as one string, as in the request URL *)
RECURSIVE KeyStr(_)
KeyStr(k) == IF k = <<>> THEN "" ELSE Head(k) \o KeyStr(Tail(k))

(* Ticket ids a client may send: well-formed keys, a key the pattern does
   not match, and a key with a trailing newline. *)
TicketIds ==
    { <<"Q", "A", "-", "7">>, <<"A", "-", "1">>, <<"q", "a", "-", "7">>,
      <<"Q", "A", "-", "7", "\n">> }

(* JiraConfig values that pass or fail test_connection at the tracker *)
JiraConfigs == {"site-a", "site-b"}

(* the JiraIssue the tracker answers with for the key it was asked for *)
IssueFor(k) == [key |-> KeyStr(k), summary |-> "Login"]

IdleFetcher ==
    [pc |-> "idle", ticket_id |-> <<>>, client |-> "none", sent |-> <<>>,
     calls |-> 0, existing |-> FALSE, stamp |-> 0, summary |-> "",
     status |-> 0, detail |-> ""]

IdleSaver == [pc |-> "idle", cfg |-> "none", existing |-> FALSE, status |-> 0]

(* HTTPException raised by fetch_ticket *)
FetchRejected(p, tid, detail) ==
    fetcher' = [fetcher EXCEPT ![p] =
                  [IdleFetcher EXCEPT !.pc = "done", !.ticket_id = tid,
                                      !.status = 400, !.detail = detail]]

(* fetch_ticket up to the point where get_issue is awaiting the tracker *)
FetchTicket(p, tid) ==
    /\ fetcher[p].pc \in {"idle", "done"}
    /\ IF tid = <<>>
       THEN /\ FetchRejected(p, tid, "ticketId is required")
            /\ UNCHANGED jiraCalls
       ELSE IF ~MatchesKeyPattern(tid)
       THEN /\ FetchRejected(p, tid, "Invalid ticket ID format")
            /\ UNCHANGED jiraCalls
       ELSE IF jiraClient = "none"
       THEN /\ FetchRejected(p, tid, "JIRA not configured")
            /\ UNCHANGED jiraCalls
       ELSE /\ jiraCalls < MaxCalls
            /\ fetcher' = [fetcher EXCEPT ![p] =
                             [IdleFetcher EXCEPT !.pc = "get_issue",
                                                 !.ticket_id = tid,
                                                 !.client = jiraClient,
                                                 !.sent = tid,
                                                 !.calls = 1]]
            /\ jiraCalls' = jiraCalls + 1
    /\ UNCHANGED <<pc, provider, model, issue, attempt, requests, listRequests,
                   sleeps, failures, content, result, usedFallback, plan,
                   error, history, exported, log, answer, models, sentModel, now,
                   jiraClient, jiraSettings, llmSettings, saver, recent, req,
                   viewed, template_content, prompt, adf, flat>>

(* get_issue raises (transport error, error status): except Exception *)
FetchIssueFailsMutant(p) ==
    /\ fetcher[p].pc = "get_issue"
    /\ fetcher' = [fetcher EXCEPT ![p].calls = @ + 1]
    /\ fetcher[p].calls < 2
    /\ jiraCalls' = jiraCalls + 1
    /\ UNCHANGED <<pc, provider, model, issue, attempt, requests, listRequests,
                   sleeps, failures, content, result, usedFallback, plan,
                   error, history, exported, log, answer, models, sentModel, now,
                   jiraClient, jiraSettings, llmSettings, saver, recent,
                   req, viewed, template_content, prompt, adf, flat>>

FetchIssueFails(p) ==
    /\ fetcher[p].pc = "get_issue"
    /\ fetcher' = [fetcher EXCEPT ![p].pc = "done", ![p].status = 400,
                                  ![p].detail = "Failed to fetch ticket"]
    /\ UNCHANGED <<pc, provider, model, issue, attempt, requests, listRequests,
                   sleeps, failures, content, result, usedFallback, plan,
                   error, history, exported, log, answer, models, sentModel, now,
                   jiraClient, jiraSettings, llmSettings, saver, recent,
                   jiraCalls, req, viewed, template_content, prompt, adf,
                   flat>>

(* get_issue returns the issue; the session reads the row of the ticket.
   On the "existing" branch the new fetched_at is read from the clock. *)
FetchIssueReturns(p) ==
    /\ fetcher[p].pc = "get_issue"
    /\ LET tid == fetcher[p].ticket_id
           existing == \E r \in recent : r.ticket_id = tid
       IN  /\ fetcher' = [fetcher EXCEPT ![p].pc = "commit",
                                         ![p].existing = existing,
                                         ![p].summary = IssueFor(tid).summary,
                                         ![p].stamp = IF existing THEN now
                                                      ELSE 0]
           /\ now' = IF existing THEN now + 1 ELSE now
    /\ UNCHANGED <<pc, provider, model, issue, attempt, requests, listRequests,
                   sleeps, failures, content, result, usedFallback, plan,
                   error, history, exported, log, answer, models, sentModel,
                   jiraClient, jiraSettings, llmSettings, saver, recent,
                   jiraCalls, req, viewed, template_content, prompt, adf,
                   flat>>

RecentLimitMutant == 4 + 1
RecentLimit == 4

NewestMutant(rows) ==
    {r \in rows :
        Cardinality({q \in rows : q.fetched_at < r.fetched_at}) < RecentLimit}

(* select ticket_id order by fetched_at desc limit 4: the rows that at most
   RecentLimit - 1 rows are newer than *)
Newest(rows) ==
    {r \in rows :
        Cardinality({q \in rows : q.fetched_at > r.fetched_at}) < RecentLimit}

(* The write transaction of fetch_ticket, from the first statement that
   writes to the commit; the database admits one writer at a time.  The
   UPDATE of a row that is gone and the INSERT of a key that is present
   raise, the transaction is rolled back and the route answers 400. *)
FetchCommit(p) ==
    /\ fetcher[p].pc = "commit"
    /\ LET f == fetcher[p]
           present == \E r \in recent : r.ticket_id = f.ticket_id
           kept == Newest(recent)
           failed == IF f.existing THEN ~present
                     ELSE \E r \in kept : r.ticket_id = f.ticket_id
       IN  /\ recent' =
                 IF failed THEN recent
                 ELSE IF f.existing
                 THEN {IF r.ticket_id = f.ticket_id
                       THEN [r EXCEPT !.fetched_at = f.stamp] ELSE r
                       : r \in recent}
                 ELSE kept \cup {[ticket_id |-> f.ticket_id,
                                  summary |-> f.summary, fetched_at |-> now]}
           /\ now' = IF failed \/ f.existing THEN now ELSE now + 1
           /\ fetcher' = [fetcher EXCEPT
                            ![p].pc = "done",
                            ![p].status = IF failed THEN 400 ELSE 200,
                            ![p].detail = IF failed
                                          THEN "Failed to fetch ticket"
                                          ELSE "success"]
    /\ UNCHANGED <<pc, provider, model, issue, attempt, requests, listRequests,
                   sleeps, failures, content, result, usedFallback, plan,
                   error, history, exported, log, answer, models, sentModel,
                   jiraClient, jiraSettings, llmSettings, saver, jiraCalls,
                   req, viewed, template_content, prompt, adf, flat>>

(* save_jira_config: the client is built from the request and
   test_connection is awaiting the tracker *)
SaveJiraConfig(q, cfg) ==
    /\ saver[q].pc \in {"idle", "done"}
    /\ saver' = [saver EXCEPT ![q] = [IdleSaver EXCEPT !.pc = "testing",
                                                       !.cfg = cfg]]
    /\ UNCHANGED <<pc, provider, model, issue, attempt, requests, listRequests,
                   sleeps, failures, content, result, usedFallback, plan,
                   error, history, exported, log, answer, models, sentModel, now,
                   jiraClient, jiraSettings, llmSettings, fetcher, recent,
                   jiraCalls, req, viewed, template_content, prompt, adf,
                   flat>>

(* test_connection raises: nothing is stored, the client is not replaced *)
TestConnectionFails(q) ==
    /\ saver[q].pc = "testing"
    /\ saver' = [saver EXCEPT ![q].pc = "done", ![q].status = 400]
    /\ UNCHANGED <<pc, provider, model, issue, attempt, requests, listRequests,
                   sleeps, failures, content, result, usedFallback, plan,
                   error, history, exported, log, answer, models, sentModel, now,
                   jiraClient, jiraSettings, llmSettings, fetcher, recent,
                   jiraCalls, req, viewed, template_content, prompt, adf,
                   flat>>

(* test_connection returns; the session reads the "jira_config" row *)
TestConnectionReturns(q) ==
    /\ saver[q].pc = "testing"
    /\ saver' = [saver EXCEPT ![q].pc = "commit",
                              ![q].existing = (jiraSettings # "none")]
    /\ UNCHANGED <<pc, provider, model, issue, attempt, requests, listRequests,
                   sleeps, failures, content, result, usedFallback, plan,
                   error, history, exported, log, answer, models, sentModel, now,
                   jiraClient, jiraSettings, llmSettings, fetcher, recent,
                   jiraCalls, req, viewed, template_content, prompt, adf,
                   flat>>

(* db.commit(): the row is updated, or inserted; the INSERT of a key that
   another request has inserted meanwhile raises and the route answers 400 *)
SaveJiraCommit(q) ==
    /\ saver[q].pc = "commit"
    /\ IF ~saver[q].existing /\ jiraSettings # "none"
       THEN /\ saver' = [saver EXCEPT ![q].pc = "done", ![q].status = 400]
            /\ UNCHANGED jiraSettings
       ELSE /\ saver' = [saver EXCEPT ![q].pc = "set"]
            /\ jiraSettings' = saver[q].cfg
    /\ UNCHANGED <<pc, provider, model, issue, attempt, requests, listRequests,
                   sleeps, failures, content, result, usedFallback, plan,
                   error, history, exported, log, answer, models, sentModel, now,
                   jiraClient, llmSettings, fetcher, recent, jiraCalls, req,
                   viewed, template_content, prompt, adf, flat>>

(* set_jira_client(client) and the response *)
SetJiraClientMutant(q) ==
    /\ saver[q].pc = "set"
    /\ jiraClient' = saver[q].cfg
    /\ saver' = [saver EXCEPT ![q].pc = "done", ![q].status = 200]
    /\ req' = IF pc = "get_issue" THEN [req EXCEPT !.client = saver[q].cfg]
              ELSE req
    /\ UNCHANGED <<pc, provider, model, issue, attempt, requests, listRequests,
                   sleeps, failures, content, result, usedFallback, plan,
                   error, history, exported, log, answer, models, sentModel, now,
                   jiraSettings, llmSettings, fetcher, recent, jiraCalls,
                   viewed, template_content, prompt, adf, flat>>

SetJiraClient(q) ==
    /\ saver[q].pc = "set"
    /\ jiraClient' = saver[q].cfg
    /\ saver' = [saver EXCEPT ![q].pc = "done", ![q].status = 200]
    /\ UNCHANGED <<pc, provider, model, issue, attempt, requests, listRequests,
                   sleeps, failures, content, result, usedFallback, plan,
                   error, history, exported, log, answer, models, sentModel, now,
                   jiraSettings, llmSettings, fetcher, recent, jiraCalls, req,
                   viewed, template_content, prompt, adf, flat>>

(* the rows with the highest fetched_at first, at most n of them *)
RECURSIVE Latest(_, _)
Latest(rows, n) ==
    IF rows = {} \/ n = 0 THEN <<>>
    ELSE LET r == CHOOSE x \in rows :
                      \A y \in rows : y.fetched_at <= x.fetched_at
         IN  <<r>> \o Latest(rows \ {r}, n - 1)

(* get_recent_tickets: order by fetched_at desc limit 5 *)
GetRecentTickets ==
    /\ viewed' = [route |-> "recent", items |-> Latest(recent, 5)]
    /\ UNCHANGED <<pc, provider, model, issue, attempt, requests, listRequests,
                   sleeps, failures, content, result, usedFallback, plan,
                   error, history, exported, log, answer, models, sentModel, now,
                   trackerVars, req, template_content, pureVars>>

(* the "llm_config" row as save_llm_config stores it *)
NoLlmSettings == [stored |-> FALSE, groq_model |-> "", ollama_model |-> ""]

LlmSettings ==
    { [stored |-> TRUE, groq_model |-> "llama-3.3-70b-versatile",
       ollama_model |-> "mistral"],
      [stored |-> TRUE, groq_model |-> "", ollama_model |-> ""] }

SaveLlmConfig(s) ==
    /\ llmSettings' = s
    /\ UNCHANGED <<pc, provider, model, issue, attempt, requests, listRequests,
                   sleeps, failures, content, result, usedFallback, plan,
                   error, history, exported, log, answer, models, sentModel, now,
                   jiraClient, jiraSettings, saver, fetcher, recent,
                   jiraCalls, req, viewed, template_content, prompt, adf,
                   flat>>

(* the templates table *)
TemplateStore == [id \in {"tpl-1"} |-> "Sections: scope, cases"]

(* generate_test_plan route up to the point where get_issue is awaiting
   the tracker *)
StartGenerate(tid, tpl, prov) ==
    /\ pc = "idle"
    /\ IF jiraClient = "none"
       THEN /\ pc' = "failed"
            /\ req' = [NoReq EXCEPT !.ticket_id = tid, !.template_id = tpl,
                                    !.provider = prov, !.status = 400,
                                    !.detail = "JIRA not configured"]
            /\ UNCHANGED jiraCalls
       ELSE /\ jiraCalls < MaxCalls
            /\ pc' = "get_issue"
            /\ req' = [NoReq EXCEPT !.ticket_id = tid, !.template_id = tpl,
                                    !.provider = prov, !.client = jiraClient,
                                    !.sent = tid, !.calls = 1]
            /\ jiraCalls' = jiraCalls + 1
    /\ UNCHANGED <<provider, model, issue, attempt, requests, listRequests,
                   sleeps, failures, content, result, usedFallback, plan,
                   error, history, exported, log, answer, models, sentModel, now,
                   jiraClient, jiraSettings, llmSettings, saver, fetcher,
                   recent, viewed, template_content, prompt, adf, flat>>

(* get_issue raises: HTTP 400 *)
GenerateIssueFails ==
    /\ pc = "get_issue"
    /\ pc' = "failed"
    /\ req' = [req EXCEPT !.status = 400, !.detail = "Failed to fetch ticket"]
    /\ UNCHANGED <<provider, model, issue, attempt, requests, listRequests,
                   sleeps, failures, content, result, usedFallback, plan,
                   error, history, exported, log, answer, models, sentModel, now,
                   jiraClient, jiraSettings, llmSettings, saver, fetcher,
                   recent, jiraCalls, viewed, template_content, prompt, adf,
                   flat>>

(* get_issue returns the issue; the template is looked up *)
GenerateIssueReturns ==
    /\ pc = "get_issue"
    /\ pc' = "settings"
    /\ issue' = IssueFor(req.ticket_id)
    /\ template_content' = IF req.template_id \in DOMAIN TemplateStore
                           THEN <<TemplateStore[req.template_id]>> ELSE <<>>
    /\ UNCHANGED <<provider, model, attempt, requests, listRequests,
                   sleeps, failures, content, result, usedFallback, plan,
                   error, history, exported, log, answer, models, sentModel, now,
                   jiraClient, jiraSettings, llmSettings, saver, fetcher,
                   recent, jiraCalls, req, viewed, prompt, adf, flat>>

(* the LLM settings are read, the provider is built and its
   generate_test_plan is entered *)
LoadSettings ==
    /\ pc = "settings"
    /\ IF ~llmSettings.stored
       THEN /\ pc' = "failed"
            /\ req' = [req EXCEPT !.status = 400,
                                  !.detail = "LLM not configured"]
            /\ UNCHANGED <<provider, model>>
       ELSE /\ provider' = req.provider
            /\ model' = IF req.provider = "ollama"
                        THEN llmSettings.ollama_model
                        ELSE IF llmSettings.groq_model = ""
                        THEN "llama-3.3-70b-versatile"
                        ELSE llmSettings.groq_model
            /\ pc' = IF req.provider = "ollama"
                        /\ llmSettings.ollama_model = ""
                     THEN "list_models" ELSE "attempt"
            /\ UNCHANGED req
    /\ UNCHANGED <<issue, attempt, requests, listRequests,
                   sleeps, failures, content, result, usedFallback, plan,
                   error, history, exported, log, answer, models, sentModel, now,
                   jiraClient, jiraSettings, llmSettings, saver, fetcher,
                   recent, jiraCalls, viewed, template_content, prompt, adf,
                   flat>>

(* The user prompt of generate_test_plan.  The prompt is a sequence of
   segments, each the text interpolated under one heading; Optional values
   are <<>> for None and <<s>> for the string s. *)
join(sep, l) ==
    LET RECURSIVE From(_)
        From(i) == IF i > Len(l) THEN ""
                   ELSE IF i = Len(l) THEN l[i]
                   ELSE l[i] \o sep \o From(i + 1)
    IN  From(1)

(* the truth value of an Optional[str] in "if x" and "x or default" *)
Truthy(o) == o # <<>> /\ o[1] # ""

Segment(kind, text) == [kind |-> kind, text |-> text]

(* GroqProvider.generate_test_plan: context and user_prompt *)
GroqUserPrompt(iss, template) ==
    << Segment("key", iss.key),
       Segment("summary", iss.summary),
       Segment("description", iss.description),
       Segment("priority", iss.priority),
       Segment("issue_type", iss.issue_type),
       Segment("status", iss.status),
       Segment("labels", IF iss.labels # <<>> THEN join(", ", iss.labels)
                         ELSE "None"),
       Segment("components", IF iss.components # <<>>
                             THEN join(", ", iss.components) ELSE "None"),
       Segment("assignee", IF Truthy(iss.assignee) THEN iss.assignee[1]
                           ELSE "Unassigned") >>
    \o (IF Truthy(iss.acceptance_criteria)
        THEN <<Segment("acceptance_criteria", iss.acceptance_criteria[1])>>
        ELSE <<>>)
    \o (IF Truthy(template) THEN <<Segment("template", template[1])>>
        ELSE <<>>)
    \o <<Segment("instructions", "generate a COMPREHENSIVE TEST PLAN document")>>

(* OllamaProvider.generate_test_plan: context and user_prompt *)
OllamaUserPrompt(iss, template) ==
    << Segment("key", iss.key),
       Segment("summary", iss.summary),
       Segment("description", iss.description),
       Segment("priority", iss.priority),
       Segment("issue_type", iss.issue_type) >>
    \o (IF Truthy(iss.acceptance_criteria)
        THEN <<Segment("acceptance_criteria", iss.acceptance_criteria[1])>>
        ELSE <<>>)
    \o (IF Truthy(template) THEN <<Segment("template", template[1])>>
        ELSE <<>>)
    \o <<Segment("instructions", "Generate a comprehensive test plan")>>

UserPrompt(p, iss, template) ==
    IF p = "groq" THEN GroqUserPrompt(iss, template)
    ELSE OllamaUserPrompt(iss, template)

(* class LLMProvider(str, Enum) *)
LLMProvider == {"groq", "ollama"}

(* JiraIssue values as _parse_issue builds them *)
PromptIssues ==
    [key : {"QA-7"}, summary : {"Login"}, description : {"As a user"},
     issue_type : {"Story"}, priority : {"High"}, status : {"Open"},
     assignee : {<<>>, <<"">>, <<"Ann">>},
     labels : {<<>>, <<"ui">>, <<"ui", "auth">>},
     components : {<<>>, <<"web", "api">>},
     acceptance_criteria : {<<>>, <<"Given a user">>}]

PromptTemplates == {<<>>, <<"Sections: scope, cases">>}

(* the part of generate_test_plan that builds the user prompt *)
BuildUserPrompt ==
    /\ pc = "idle"
    /\ pc' = "prompted"
    /\ prompt' = UserPrompt(provider, issue, template_content)
    /\ UNCHANGED <<provider, model, issue, attempt, requests, listRequests,
                   sleeps, failures, content, result, usedFallback, plan,
                   error, history, exported, log, answer, models, sentModel, now,
                   trackerVars, req, viewed, template_content, adf, flat>>


(* Atlassian Document Format values.  A node is a dict (with optional
   "type", "text" and "content" keys), a list, or None; an absent key is
   <<>> and a present one is <<value>>. *)
AdfDict(type, text, children) ==
    [isa |-> "dict", type |-> type, text |-> text, content |-> children,
     items |-> <<>>]

AdfList(items) ==
    [isa |-> "list", type |-> <<>>, text |-> <<>>, content |-> <<>>,
     items |-> items]

AdfNone ==
    [isa |-> "none", type |-> <<>>, text |-> <<>>, content |-> <<>>,
     items |-> <<>>]

EmptyDict == AdfDict(<<>>, <<>>, <<>>)

TextNode(s) == AdfDict(<<"text">>, <<s>>, <<>>)

Doc(children) == AdfDict(<<"doc">>, <<>>, <<children>>)

(* "not adf": None, {} and [] are false *)
Falsy(node) ==
    \/ node.isa = "none"
    \/ node.isa = "list" /\ node.items = <<>>
    \/ node = EmptyDict

(* traverse(node): the texts appended, in the order they are appended *)
RECURSIVE traverse(_)
traverse(node) ==
    LET RECURSIVE Each(_, _)
        Each(l, i) == IF i > Len(l) THEN <<>>
                      ELSE traverse(l[i]) \o Each(l, i + 1)
    IN  IF node.isa = "dict"
        THEN IF node.type = <<"text">>
             THEN <<IF node.text = <<>> THEN "" ELSE node.text[1]>>
             ELSE IF node.content # <<>> THEN Each(node.content[1], 1)
             ELSE <<>>
        ELSE IF node.isa = "list" THEN Each(node.items, 1)
        ELSE <<>>

extract_text_from_adfMutant(node) ==
    IF Falsy(node) THEN "" ELSE join("", traverse(node))

(* JiraClient._extract_text_from_adf *)
extract_text_from_adf(node) ==
    IF Falsy(node) THEN "" ELSE join(" ", traverse(node))

(* Bounds of the document trees: children per document, and containers
   around a nested leaf *)
AdfWidth == 2
AdfDepth == 1

(* a node under d containers, paragraphs and bare lists alternating *)
RECURSIVE Nested(_, _)
Nested(node, d) ==
    IF d = 0 THEN node
    ELSE IF d % 2 = 1
         THEN AdfDict(<<"paragraph">>, <<>>, <<<<Nested(node, d - 1)>>>>)
         ELSE AdfList(<<Nested(node, d - 1)>>)

(* text leaves, an empty text leaf, and a node with neither text nor
   content *)
AdfLeaves ==
    {TextNode("a"), TextNode("b"), TextNode(""),
     AdfDict(<<"hardBreak">>, <<>>, <<>>)}

AdfNodes == AdfLeaves \cup {Nested(n, AdfDepth) : n \in AdfLeaves}

AdfChildren == UNION {[1..n -> AdfNodes] : n \in 0..AdfWidth}

(* fields.get("description", {}): a document, {} or None *)
AdfDocs == {AdfNone, EmptyDict} \cup {Doc(c) : c \in AdfChildren}

(* the children of a document, none when it is absent *)
Children(d) == IF d.content = <<>> THEN <<>> ELSE d.content[1]

(* the document whose children are those of a followed by those of b *)
Siblings(a, b) == Doc(Children(a) \o Children(b))

NoAdf == [a |-> AdfNone, b |-> AdfNone]
NoFlat == [a |-> "", b |-> "", ab |-> ""]

(* _extract_text_from_adf applied to two documents and to the document
   holding the children of both *)
ExtractText ==
    /\ pc = "idle"
    /\ pc' = "flattened"
    /\ flat' = [a |-> extract_text_from_adf(adf.a),
                b |-> extract_text_from_adf(adf.b),
                ab |-> extract_text_from_adf(Siblings(adf.a, adf.b))]
    /\ UNCHANGED <<provider, model, issue, attempt, requests, listRequests,
                   sleeps, failures, content, result, usedFallback, plan,
                   error, history, exported, log, answer, models, sentModel, now,
                   trackerVars, req, viewed, template_content, prompt, adf>>

(* POST /api/settings/llm/test and the providers' test_connection.  An
   answer is what the provider's endpoint did with the one request of the
   test: a response with its status, or an exception of the client library
   (the hosted client raises on every error status, httpx on none). *)
NoAnswer == [kind |-> "none", status |-> 0, cause |-> ""]
Answered(status) == [kind |-> "response", status |-> status, cause |-> ""]
Threw(cause) == [kind |-> "error", status |-> 0, cause |-> cause]

GroqAnswers ==
    {Answered(200), Threw("AuthenticationError"), Threw("APIConnectionError")}

OllamaAnswers ==
    {Answered(200), Answered(204), Answered(404), Answered(500),
     Threw("ConnectError"), Threw("ReadTimeout")}

(* what a test_connection call does: the value it returns, whether an
   exception leaves it, and what it prints *)
Tested(value, printed) ==
    [raised |-> FALSE, value |-> value, printed |-> printed]

(* GroqProvider.test_connection *)
GroqTestConnection(ans) ==
    IF ans.kind = "error"
    THEN Tested(FALSE, <<[event |-> "print",
                          text |-> "Groq connection test failed",
                          cause |-> ans.cause]>>)
    ELSE Tested(TRUE, <<>>)

OllamaTestConnectionMutant(ans) ==
    IF ans.kind = "error"
    THEN Tested(FALSE, <<[event |-> "print",
                          text |-> "Ollama connection test failed",
                          cause |-> ans.cause]>>)
    ELSE Tested(ans.status < 300, <<>>)

(* OllamaProvider.test_connection *)
OllamaTestConnection(ans) ==
    IF ans.kind = "error"
    THEN Tested(FALSE, <<[event |-> "print",
                          text |-> "Ollama connection test failed",
                          cause |-> ans.cause]>>)
    ELSE Tested(ans.status = 200, <<>>)

(* bound: connection tests made by the process *)
MaxTests == 2

(* test_llm_connection up to the provider's request: get_llm_provider *)
TestLlmConnection(cfg) ==
    /\ pc = "idle"
    /\ requests + listRequests < MaxTests
    /\ pc' = "connecting"
    /\ provider' = cfg[1]
    /\ model' = cfg[2]
    /\ result' = NullV
    /\ error' = NoError
    /\ answer' = NoAnswer
    /\ req' = NoReq
    /\ UNCHANGED <<issue, attempt, requests, listRequests, sleeps, failures,
                   content, usedFallback, plan, history, exported, log,
                   models, sentModel, now, trackerVars, viewed,
                   template_content, pureVars>>

(* the provider's test_connection: one request, its answer, the return *)
TestConnection(ans) ==
    /\ pc = "connecting"
    /\ ans \in (IF provider = "groq" THEN GroqAnswers ELSE OllamaAnswers)
    /\ LET t == IF provider = "groq" THEN GroqTestConnection(ans)
                ELSE OllamaTestConnection(ans)
       IN  /\ requests' = IF provider = "groq" THEN requests + 1 ELSE requests
           /\ listRequests' = IF provider = "groq" THEN listRequests
                              ELSE listRequests + 1
           /\ answer' = ans
           /\ log' = log \o t.printed
           /\ IF t.raised
              THEN /\ pc' = "raised"
                   /\ error' = [kind |-> "Exception", cause |-> ans.cause,
                                attempts |-> 1]
                   /\ UNCHANGED result
              ELSE /\ pc' = "tested"
                   /\ result' = BoolV(t.value)
                   /\ UNCHANGED error
    /\ UNCHANGED <<provider, model, issue, attempt, sleeps, failures, content,
                   usedFallback, plan, history, exported, models, sentModel,
                   now, others>>

(* test_llm_connection after the provider's test: 200 or HTTP 400 *)
TestLlmResponds ==
    /\ pc \in {"tested", "raised"}
    /\ pc' = "idle"
    /\ req' = IF pc = "tested" /\ result = BoolV(TRUE)
              THEN [NoReq EXCEPT !.provider = provider, !.status = 200,
                                 !.detail = "connection successful"]
              ELSE [NoReq EXCEPT !.provider = provider, !.status = 400,
                                 !.detail = "Failed to connect"]
    /\ UNCHANGED <<provider, model, issue, attempt, requests, listRequests,
                   sleeps, failures, content, result, usedFallback, plan,
                   error, history, exported, log, answer, models, sentModel,
                   now, trackerVars, viewed, template_content, pureVars>>

----------------------------------------------------------------------------
(* Nothing is configured, no request is in flight, nothing is stored *)
InitOthers ==
    /\ jiraClient = "none"
    /\ jiraSettings = "none"
    /\ llmSettings = NoLlmSettings
    /\ saver = [q \in Savers |-> IdleSaver]
    /\ fetcher = [p \in Fetchers |-> IdleFetcher]
    /\ recent = {}
    /\ jiraCalls = 0
    /\ req = NoReq
    /\ viewed = NoView
    /\ template_content = <<>>
    /\ prompt = <<>>
    /\ adf = NoAdf
    /\ flat = NoFlat

InitGenerate ==
    /\ pc = "idle"
    /\ provider = "groq"
    /\ model = ""
    /\ issue \in Issues
    /\ attempt = 0
    /\ requests = 0
    /\ listRequests = 0
    /\ sleeps = <<>>
    /\ failures = <<>>
    /\ content = <<>>
    /\ result = NullV
    /\ usedFallback = FALSE
    /\ plan = NoPlan
    /\ error = NoError
    /\ history = <<>>
    /\ exported = NoExport
    /\ log = <<>>
    /\ answer = NoAnswer
    /\ models = <<>>
    /\ sentModel = ""

Init == InitGenerate /\ now = 1 /\ InitOthers

(* One call of generate_test_plan, over the full set of responses *)
NextGen ==
    \/ \E cfg \in ProviderConfigs, iss \in Issues : GenerateTestPlan(cfg, iss)
    \/ ListModelsFails
    \/ \E ms \in ModelLists : ListModelsReturns(ms)
    \/ RequestFails
    \/ \E c \in Responses : Respond(c)
    \/ Wake

SpecGen == Init /\ [][NextGen]_vars

Next ==
    \/ \E cfg \in ProviderConfigs, iss \in Issues : GenerateTestPlan(cfg, iss)
    \/ ListModelsFails
    \/ \E ms \in ModelLists : ListModelsReturns(ms)
    \/ RequestFails
    \/ \E c \in SystemResponses : Respond(c)
    \/ Wake
    \/ SaveHistory
    \/ GenerateFails
    \/ RequestEnds
    \/ \E h \in 1..(MaxHistory + 1), d \in ExportBodies : ExportTestPlan(h, d)

Spec == Init /\ [][Next]_vars

(* The routes that reach the tracker, next to a reconfiguration of the
   tracker client.  Ticket fetches and generations are served one at a
   time; the two settings routes interleave with them freely.  The
   generation draws on one response and on the hosted provider. *)
TicketResponses == { dumps(Object(<< <<"title", Str("T")>> >>)) }

GenerateTicketIds == { <<"Q", "A", "-", "7">>, <<"q", "a", "-", "7">> }

NextTickets ==
    \/ pc = "idle" /\ \E tid \in TicketIds : FetchTicket(1, tid)
    \/ FetchIssueFails(1)
    \/ FetchIssueReturns(1)
    \/ FetchCommit(1)
    \/ \E cfg \in JiraConfigs : SaveJiraConfig(1, cfg)
    \/ TestConnectionFails(1)
    \/ TestConnectionReturns(1)
    \/ SaveJiraCommit(1)
    \/ SetJiraClient(1)
    \/ \E s \in {t \in LlmSettings : t.groq_model # ""} : SaveLlmConfig(s)
    \/ /\ fetcher[1].pc \in {"idle", "done"}
       /\ \E tid \in GenerateTicketIds : StartGenerate(tid, "tpl-1", "groq")
    \/ GenerateIssueFails
    \/ GenerateIssueReturns
    \/ LoadSettings
    \/ RequestFails
    \/ \E c \in TicketResponses : Respond(c)
    \/ Wake
    \/ SaveHistory
    \/ GenerateFails
    \/ RequestEnds

SpecTickets == Init /\ [][NextTickets]_vars

(* Concurrent ticket fetches, each with its own session, on the
   recent-tickets store.  The store starts empty, or as four fetches one
   after another have left it; the requests are for the oldest and the
   newest ticket of the store and for two tickets that are not in it. *)
RecentKeyDigits == <<"1", "2", "3", "4", "5", "6">>

RecentKey(i) == <<"A", "-", RecentKeyDigits[i]>>

RecentIds == {RecentKey(i) : i \in {1, 4, 5, 6}}

StoreAfter(n) ==
    {[ticket_id |-> RecentKey(i), summary |-> IssueFor(RecentKey(i)).summary,
      fetched_at |-> i] : i \in 1..n}

InitRecent ==
    /\ InitGenerate
    /\ jiraClient = "site-a"
    /\ jiraSettings = "site-a"
    /\ llmSettings = NoLlmSettings
    /\ saver = [q \in Savers |-> IdleSaver]
    /\ fetcher = [p \in Fetchers |-> IdleFetcher]
    /\ \E n \in {0, 4} :
          recent = StoreAfter(n) /\ now = n + 1
    /\ jiraCalls = 0
    /\ req = NoReq
    /\ viewed = NoView
    /\ template_content = <<>>
    /\ prompt = <<>>
    /\ adf = NoAdf
    /\ flat = NoFlat

NextRecent ==
    \/ \E p \in Fetchers, tid \in RecentIds : FetchTicket(p, tid)
    \/ \E p \in Fetchers : FetchIssueFails(p)
    \/ \E p \in Fetchers : FetchIssueReturns(p)
    \/ \E p \in Fetchers : FetchCommit(p)
    \/ GetRecentTickets

SpecRecent == InitRecent /\ [][NextRecent]_vars

(* Generations for one ticket, one after another, next to the routes that
   read the history: the hosted provider answers each request with a plan. *)
MaxRecords == 2

HistoryResponses ==
    { dumps(Object(<< <<"title", Str("T")>> >>)),
      dumps(Object(<< <<"test_cases",
                        ArrV(<<Object(<< <<"id", Str("TC-002")>> >>)>>)>> >>)) }

NextHistory ==
    \/ \E iss \in Issues :
          GenerateTestPlan(<<"groq", "llama-3.3-70b-versatile">>, iss)
    \/ \E c \in HistoryResponses : Respond(c)
    \/ SaveHistory
    \/ Len(history) < MaxRecords /\ EndRequest
    \/ \E h \in 1..(MaxRecords + 1), d \in ExportBodies : ExportTestPlan(h, d)
    \/ GetHistory
    \/ \E h \in 1..(MaxRecords + 1) : GetHistoryItem(h)

SpecHistory == Init /\ [][NextHistory]_vars

(* The user prompt of either provider, for every issue and template of a
   bounded set *)
InitPrompt ==
    /\ pc = "idle"
    /\ provider \in LLMProvider
    /\ model = ""
    /\ issue \in PromptIssues
    /\ attempt = 0
    /\ requests = 0
    /\ listRequests = 0
    /\ sleeps = <<>>
    /\ failures = <<>>
    /\ content = <<>>
    /\ result = NullV
    /\ usedFallback = FALSE
    /\ plan = NoPlan
    /\ error = NoError
    /\ history = <<>>
    /\ exported = NoExport
    /\ log = <<>>
    /\ answer = NoAnswer
    /\ models = <<>>
    /\ sentModel = ""
    /\ now = 1
    /\ jiraClient = "none"
    /\ jiraSettings = "none"
    /\ llmSettings = NoLlmSettings
    /\ saver = [q \in Savers |-> IdleSaver]
    /\ fetcher = [p \in Fetchers |-> IdleFetcher]
    /\ recent = {}
    /\ jiraCalls = 0
    /\ req = NoReq
    /\ viewed = NoView
    /\ template_content \in PromptTemplates
    /\ prompt = <<>>
    /\ adf = NoAdf
    /\ flat = NoFlat

NextPrompt == BuildUserPrompt

SpecPrompt == InitPrompt /\ [][NextPrompt]_vars

(* _extract_text_from_adf on every pair of documents of a bounded set *)
InitAdf ==
    /\ InitGenerate
    /\ now = 1
    /\ jiraClient = "none"
    /\ jiraSettings = "none"
    /\ llmSettings = NoLlmSettings
    /\ saver = [q \in Savers |-> IdleSaver]
    /\ fetcher = [p \in Fetchers |-> IdleFetcher]
    /\ recent = {}
    /\ jiraCalls = 0
    /\ req = NoReq
    /\ viewed = NoView
    /\ template_content = <<>>
    /\ prompt = <<>>
    /\ adf \in [a : AdfDocs, b : AdfDocs]
    /\ flat = NoFlat

NextAdf == ExtractText

SpecAdf == InitAdf /\ [][NextAdf]_vars

(* Connection tests of either provider *)
NextConn ==
    \/ \E cfg \in ProviderConfigs : TestLlmConnection(cfg)
    \/ \E ans \in GroqAnswers \cup OllamaAnswers : TestConnection(ans)
    \/ TestLlmResponds

SpecConn == Init /\ [][NextConn]_vars

(* Generation, persistence and export of plans that differ in their
   executive summary, risks and test cases *)
MarkdownRisks ==
    { <<>>,
      <<Object(<< <<"description", Str("Outage")>>, <<"impact", Str("High")>>,
                  <<"mitigation", Str("Retry")>> >>)>>,
      <<Object(<< <<"description", Str("Outage")>>, <<"impact", Str("High")>>,
                  <<"mitigation", Str("Retry")>> >>),
        Object(<< <<"description", Str("Delay")>> >>)>> }

MarkdownResponses ==
    { dumps(Object(<< <<"executive_summary", es>>,
                      <<"risks_mitigations", rs>>,
                      <<"test_cases", tcs>> >>)) :
        es \in {Absent, Str(""), Str("Overview")},
        rs \in {Absent} \cup {ArrV(l) : l \in MarkdownRisks},
        tcs \in {Absent,
                 ArrV(<<Object(<< <<"title", Str("Sign in")>>,
                                  <<"steps", ArrV(<<Str("s1")>>)>> >>)>>)} }

NextMarkdown ==
    \/ \E iss \in Issues :
          GenerateTestPlan(<<"groq", "llama-3.3-70b-versatile">>, iss)
    \/ \E c \in MarkdownResponses : Respond(c)
    \/ SaveHistory
    \/ \E d \in ExportBodies : ExportTestPlan(1, d)

SpecMarkdown == Init /\ [][NextMarkdown]_vars

(* Startup and concurrent save_jira_config requests.  The settings table
   is as an earlier run of the process left it; the lifespan handler loads
   it before any request is served. *)
load_settings ==
    /\ pc = "startup"
    /\ pc' = "idle"
    /\ jiraClient' = jiraSettings
    /\ UNCHANGED <<provider, model, issue, attempt, requests, listRequests,
                   sleeps, failures, content, result, usedFallback, plan,
                   error, history, exported, log, answer, models, sentModel,
                   now, jiraSettings, llmSettings, saver, fetcher, recent,
                   jiraCalls, req, viewed, template_content, pureVars>>

InitSavers ==
    /\ pc = "startup"
    /\ provider = "groq"
    /\ model = ""
    /\ issue \in Issues
    /\ attempt = 0
    /\ requests = 0
    /\ listRequests = 0
    /\ sleeps = <<>>
    /\ failures = <<>>
    /\ content = <<>>
    /\ result = NullV
    /\ usedFallback = FALSE
    /\ plan = NoPlan
    /\ error = NoError
    /\ history = <<>>
    /\ exported = NoExport
    /\ log = <<>>
    /\ answer = NoAnswer
    /\ models = <<>>
    /\ sentModel = ""
    /\ now = 1
    /\ jiraClient = "none"
    /\ jiraSettings \in {"none"} \cup JiraConfigs
    /\ llmSettings = NoLlmSettings
    /\ saver = [q \in Savers |-> IdleSaver]
    /\ fetcher = [p \in Fetchers |-> IdleFetcher]
    /\ recent = {}
    /\ jiraCalls = 0
    /\ req = NoReq
    /\ viewed = NoView
    /\ template_content = <<>>
    /\ prompt = <<>>
    /\ adf = NoAdf
    /\ flat = NoFlat

NextSavers ==
    \/ load_settings
    \/ pc = "idle" /\ \E q \in Savers, cfg \in JiraConfigs : SaveJiraConfig(q, cfg)
    \/ \E q \in Savers : TestConnectionFails(q)
    \/ \E q \in Savers : TestConnectionReturns(q)
    \/ \E q \in Savers : SaveJiraCommit(q)
    \/ \E q \in Savers : SetJiraClient(q)

SpecSavers == InitSavers /\ [][NextSavers]_vars

----------------------------------------------------------------------------
(* Properties of one generate_test_plan call *)

Min(a, b) == IF a < b THEN a ELSE b

FirstIndex(c, cls) ==
    CHOOSE i \in 1..Len(c) : c[i].c = cls /\ \A j \in 1..(i - 1) : c[j].c # cls
LastIndex(c, cls) ==
    CHOOSE i \in 1..Len(c) :
        c[i].c = cls /\ \A j \in (i + 1)..Len(c) : c[j].c # cls
Has(c, cls) == \E i \in 1..Len(c) : c[i].c = cls

(* d is the first k characters of c *)
FirstChars(d, c, k) ==
    /\ CharLen(d) = Min(k, CharLen(c))
    /\ Len(d) <= Len(c)
    /\ \A i \in 1..Len(d) :
          IF i < Len(d) \/ d[i].n = c[i].n THEN d[i] = c[i]
          ELSE d[i].n < c[i].n /\ d[i].s = c[i].s /\ d[i].v = c[i].v

RawTestCases ==
    IF result.k = "obj" /\ "test_cases" \in DOMAIN result.f
       /\ result.f["test_cases"].k = "arr"
    THEN result.f["test_cases"].items
    ELSE <<>>

(* C1: a call makes at most 3 attempts, one after another; when all three
   fail the call raises the generation-failed error carrying the cause of
   the third failure, and there is never a fourth request. *)
C1_AtMostThreeAttempts ==
    /\ requests <= 3
    /\ listRequests <= 1
    /\ Len(failures) <= 3
    /\ pc = "attempt" => requests = attempt /\ Len(failures) = attempt
    /\ pc = "sleeping" => requests = attempt + 1 /\ Len(failures) = requests
    /\ pc = "returned" => requests = attempt + 1 /\ Len(failures) = attempt
    /\ Len(failures) = 3 =>
          /\ pc \in {"raised", "failed"}
          /\ requests = 3
          /\ error.kind = "GenerationFailed"
          /\ error.attempts = 3
          /\ error.cause = failures[3].cause
    /\ error.kind = "GenerationFailed" => Len(failures) = 3

C1_Witness ==
    /\ pc = "raised"
    /\ Len(failures) = 3
    /\ failures[1].cause = "RequestError"
    /\ failures[2].cause = "AttributeError"
    /\ failures[3].cause = "JSONDecodeError"
    /\ error.cause = "JSONDecodeError"

(* C2: when attempt k succeeds after k-1 failures the plan is returned with
   no error and no further request; the waits are 1s after the first
   failure and 2s after the second, and none after a failed third. *)
C2_BackoffAndReturn ==
    /\ [](/\ Len(sleeps) = Min(Len(failures), 2)
          /\ \A i \in 1..Len(sleeps) : sleeps[i] = (IF i = 1 THEN 1 ELSE 2)
          /\ pc = "returned" =>
                /\ error = NoError
                /\ plan # NoPlan
                /\ plan = Body(provider, content, issue, model,
                              plan.generated_at).out.v
                /\ requests = Len(failures) + 1)
    /\ [][pc = "returned" => requests' = requests /\ sleeps' = sleeps]_vars

C2_Witness ==
    /\ pc = "returned"
    /\ provider = "groq"
    /\ Len(failures) = 2
    /\ requests = 3
    /\ sleeps = <<1, 2>>
    /\ error = NoError

(* C3: a transport or HTTP failure of any request to the model backend made
   during generate_test_plan, the model-listing request included, reaches
   the caller only as the generation-failed error after 3 attempts. *)
C3_RequestFailureOnlyAfterThreeAttempts ==
    (pc = "raised" /\ error.cause = "RequestError") =>
        (error.kind = "GenerationFailed" /\ requests = 3)

(* C4: a local-provider response with no brace that is not JSON as a whole
   ends the call with success at that request: the plan has exactly one test
   case, described by the first 500 characters of the response and titled
   from the issue summary. *)
C4_FallbackIsTerminalSuccess ==
    /\ \A i \in 1..Len(failures) : ~failures[i].fallback
    /\ (/\ pc = "returned" /\ provider = "ollama"
        /\ ~Has(content, "{") /\ ~Has(content, "}")
        /\ ~loads(content).ok) =>
          /\ usedFallback
          /\ requests = Len(failures) + 1
          /\ Len(plan.test_cases) = 1
          /\ plan.test_cases[1].description.s = ""
          /\ FirstChars(plan.test_cases[1].description.raw, content, 500)
          /\ plan.test_cases[1].title = "Verify " \o issue.summary
          /\ plan.title = "Test Plan: " \o issue.summary

C4_Witness ==
    /\ pc = "returned"
    /\ provider = "ollama"
    /\ content = <<Prose(499), NumTok(42), Prose(3)>>
    /\ requests = 1
    /\ Len(plan.test_cases) = 1
    /\ CharLen(plan.test_cases[1].description.raw) = 500

(* C5: for the local provider no response text makes an attempt fail: the
   only failures are failures of the request itself. *)
C5_LocalResponseTextNeverFails ==
    provider = "ollama" =>
        \A i \in 1..Len(failures) : failures[i].cause = "RequestError"

(* C7: an entry without an id key gets TC-{n:03d} for its 1-based position,
   an entry with an id keeps it, and the output list has the length and the
   order of the input list. *)
C7_TestCaseIds ==
    pc = "returned" =>
        /\ Len(plan.test_cases) = Len(RawTestCases)
        /\ \A i \in 1..Len(RawTestCases) :
              LET raw == RawTestCases[i]
                  tc == plan.test_cases[i]
              IN  /\ "id" \in DOMAIN raw.f => tc.id = raw.f["id"].s
                  /\ "id" \notin DOMAIN raw.f =>
                        tc.id = <<"TC-001", "TC-002", "TC-003", "TC-004">>[i]
                  /\ "priority" \in DOMAIN raw.f =>
                        tc.priority = raw.f["priority"].s

C7_Witness ==
    /\ pc = "returned"
    /\ provider = "groq"
    /\ Len(RawTestCases) = 2
    /\ "id" \in DOMAIN RawTestCases[1].f
    /\ "id" \notin DOMAIN RawTestCases[2].f
    /\ plan.test_cases[1].id = "A"
    /\ plan.test_cases[2].id = "TC-002"

(* C9: when the local response has a parseable JSON object between its
   first "{" and last "}", the text outside is dropped and the plan is built
   from that object, absent keys taking their defaults. *)
C9_BraceExtractionAndDefaults ==
    (/\ pc = "returned" /\ provider = "ollama"
     /\ Has(content, "{") /\ Has(content, "}")
     /\ FirstIndex(content, "{") < LastIndex(content, "}")
     /\ loads(SubSeq(content, FirstIndex(content, "{"),
                     LastIndex(content, "}"))).ok) =>
        LET o == loads(SubSeq(content, FirstIndex(content, "{"),
                              LastIndex(content, "}"))).v
        IN  /\ ~usedFallback
            /\ result = o
            /\ plan.title = IF "title" \in DOMAIN o.f THEN o.f["title"].s
                            ELSE "Test Plan: " \o issue.summary
            /\ "test_cases" \notin DOMAIN o.f =>
                  plan.test_cases = <<>> /\ plan.metadata.total_tests = 0
            /\ "risks_mitigations" \notin DOMAIN o.f =>
                  plan.risks_mitigations = <<>>
            /\ "entry_criteria" \notin DOMAIN o.f => plan.entry_criteria = <<>>
            /\ \A i \in 1..Len(plan.test_cases) :
                  LET raw == o.f["test_cases"].items[i]
                      tc == plan.test_cases[i]
                  IN  /\ "priority" \notin DOMAIN raw.f => tc.priority = "Medium"
                      /\ "test_type" \notin DOMAIN raw.f =>
                            tc.test_type = "Functional"
                      /\ "steps" \notin DOMAIN raw.f => tc.steps = <<>>
            /\ \A i \in 1..Len(plan.risks_mitigations) :
                  "impact" \notin DOMAIN o.f["risks_mitigations"].items[i].f =>
                      plan.risks_mitigations[i].impact = "Medium"

C9_Witness ==
    /\ pc = "returned"
    /\ provider = "ollama"
    /\ content = Wrapped(Object(<< <<"title", Str("T")>> >>))
    /\ plan.title = "T"
    /\ plan.test_cases = <<>>
    /\ plan.metadata.total_tests = 0

(* C10: a plan returned through the local fallback path carries a sign of
   the degradation in its metadata, or a log event records it. *)
C10_FallbackIsSignalled ==
    (pc = "returned" /\ usedFallback) =>
        \/ plan.metadata # [provider |-> "ollama", model |-> model,
                            total_tests |-> Len(plan.test_cases),
                            comprehensive |-> TRUE]
        \/ \E i \in 1..Len(log) : log[i].event = "fallback"

----------------------------------------------------------------------------
(* Properties of the plan as returned, stored and exported *)

StoredPlan(i) == loads(history[i].test_plan).v

CountLines(lines, kind) ==
    Cardinality({i \in 1..Len(lines) : lines[i].kind = kind})

(* C6: metadata.total_tests equals the number of test cases in every plan
   returned, on the normal and on the fallback path, and still does in the
   plan as stored in history and as read back for export. *)
C6_TotalTestsIsCount ==
    /\ pc \in {"returned", "done"} =>
          plan.metadata.total_tests = Len(plan.test_cases)
    /\ \A i \in 1..Len(history) :
          /\ loads(history[i].test_plan).ok
          /\ StoredPlan(i).f["metadata"].f["total_tests"]
                = NumV(Len(StoredPlan(i).f["test_cases"].items))
    /\ (exported.status = 200 /\ exported.format = "json") =>
          LET d == loads(exported.content).v
          IN  d.f["metadata"].f["total_tests"].v = Len(d.f["test_cases"].items)
    /\ (exported.status = 200 /\ exported.format = "markdown") =>
          \E i \in 1..Len(exported.content) :
              /\ exported.content[i].kind = "total"
              /\ exported.content[i].v = CountLines(exported.content, "tc_heading")

C6_Witness ==
    /\ pc = "done"
    /\ Len(history) = 1
    /\ Len(plan.test_cases) = 2
    /\ plan.metadata.total_tests = 2
    /\ StoredPlan(1).f["metadata"].f["total_tests"].v = 2
    /\ Len(StoredPlan(1).f["test_cases"].items) = 2
    /\ exported.status = 200
    /\ exported.format = "markdown"
    /\ CountLines(exported.content, "tc_heading") = 2

(* C8 as stated: every plan returned by a successful generation, and every
   plan stored in history, has a non-empty test_cases list. *)
C8_TestCasesNonEmpty ==
    /\ pc \in {"returned", "done"} => plan.test_cases # <<>>
    /\ \A i \in 1..Len(history) : StoredPlan(i).f["test_cases"].items # <<>>

(* C8 as amended: the returned plan has as many test cases as the raw
   test_cases list it was mapped from, so it is non-empty exactly when that
   list is; the fallback plan has one; the stored plan has the same number. *)
C8_TestCasesAsManyAsRaw ==
    /\ pc \in {"returned", "done"} =>
          /\ Len(plan.test_cases) = Len(RawTestCases)
          /\ usedFallback => Len(plan.test_cases) = 1
    /\ pc = "done" =>
          Len(StoredPlan(Len(history)).f["test_cases"].items)
             = Len(plan.test_cases)

C8_Witness ==
    /\ pc = "done"
    /\ provider = "ollama"
    /\ ~usedFallback
    /\ plan.title = "T"
    /\ plan.test_cases = <<>>
    /\ StoredPlan(Len(history)).f["test_cases"].items = <<>>

----------------------------------------------------------------------------
(* Properties of the routes that reach the tracker *)

(* C11: in the ticket-fetch route and in the generate route, a ticket key
   that does not match ^[A-Z]+-\d+$ is rejected before get_issue is called:
   every key for which a request went out to the tracker matches the
   pattern. *)
C11_NoMalformedKeyReachesTracker ==
    /\ req.calls > 0 => MatchesKeyPattern(req.sent)
    /\ \A p \in Fetchers :
          fetcher[p].calls > 0 => MatchesKeyPattern(fetcher[p].sent)

(* C12: whatever fetch_ticket requests have run, one after another or
   interleaved with separate sessions, the recent-tickets store holds at
   most 5 entries and at most one entry per ticket id. *)
C12_RecentStoreBounded ==
    /\ Cardinality(recent) <= 5
    /\ \A r1, r2 \in recent : r1.ticket_id = r2.ticket_id => r1 = r2

(* two overlapping fetches of new tickets on a full store: one has
   committed and evicted the oldest entry, the other is about to write *)
C12_Witness ==
    /\ Cardinality(recent) = 5
    /\ \E p, q \in Fetchers :
          /\ fetcher[p].pc = "done" /\ fetcher[p].status = 200
          /\ fetcher[p].ticket_id = RecentKey(6)
          /\ \A r \in recent : r.ticket_id # RecentKey(1)
          /\ fetcher[q].pc = "commit" /\ ~fetcher[q].existing
          /\ fetcher[q].ticket_id = RecentKey(1)

----------------------------------------------------------------------------
(* Properties of the history store and of the export *)

(* C13: a history record, once written, is never changed or removed:
   get_history, get_history_item and export_test_plan leave the store as it
   is, and a generation appends one record under an id no record has, also
   when the ticket already has a record. *)
C13_HistoryIsAppendOnly ==
    /\ [][/\ Len(history') >= Len(history)
          /\ \A i \in 1..Len(history) : history'[i] = history[i]
          /\ (exported' # exported \/ viewed' # viewed) => history' = history
          /\ (pc = "returned" /\ pc' = "done") =>
                /\ Len(history') = Len(history) + 1
                /\ \A i \in 1..Len(history) :
                      history[i].id # history'[Len(history')].id]_vars
    /\ [](\A i, j \in 1..Len(history) :
             history[i].id = history[j].id => i = j)

(* two records of one ticket under two ids, after an export and a read *)
C13_Witness ==
    /\ Len(history) = 2
    /\ history[1].ticket_id = history[2].ticket_id
    /\ history[1].id # history[2].id
    /\ history[1].test_plan # history[2].test_plan
    /\ exported.status = 200
    /\ viewed.route = "item" /\ viewed.items # <<>>

(* C14: for a stored plan id export_test_plan answers with the rendered
   content and the file name <source issue>_test_plan.md for "markdown" (also
   the default) and <source issue>_test_plan.json for "json"; any other
   format is refused as unsupported, with no content; an id that is not in
   the history store is refused as not found. *)
C14_ExportByFormat ==
    [][exported' # exported =>
         LET r == exported'
             fmt == IF "format" \in DOMAIN r.body THEN r.body["format"]
                    ELSE "markdown"
         IN  IF ~\E i \in 1..Len(history) : history[i].id = r.history_id
             THEN r.status = 404 /\ r.content = <<>> /\ r.filename = ""
             ELSE LET item == history[CHOOSE i \in 1..Len(history) :
                                          history[i].id = r.history_id]
                  IN  IF fmt = "markdown"
                      THEN /\ r.status = 200 /\ r.format = "markdown"
                           /\ r.filename = item.ticket_id \o "_test_plan.md"
                           /\ r.content # <<>>
                           /\ r.content[1].kind = "h1"
                      ELSE IF fmt = "json"
                      THEN /\ r.status = 200 /\ r.format = "json"
                           /\ r.filename = item.ticket_id \o "_test_plan.json"
                           /\ loads(r.content).ok
                      ELSE /\ r.status = 400 /\ r.content = <<>>
                           /\ r.filename = ""]_vars

(* the second stored plan has been exported as JSON *)
C14_Witness ==
    /\ Len(history) = 2
    /\ exported.history_id = 2
    /\ exported.status = 200
    /\ exported.format = "json"
    /\ exported.filename = "QA-7_test_plan.json"
    /\ exported.content # <<>>

(* C15: the JSON export of a stored plan, parsed back, is the plan that the
   generation returned and stored, field for field: generated_at, metadata
   and the nested lists in their order. *)
C15_JsonExportRoundTrip ==
    (exported.status = 200 /\ exported.format = "json") =>
        LET back == loads(exported.content)
        IN  /\ back.ok
            /\ \E i \in 1..Len(history) :
                  /\ history[i].id = exported.history_id
                  /\ back.v = loads(history[i].test_plan).v
            /\ (pc = "done" /\ exported.history_id = history[Len(history)].id)
                  => back.v = PlanDict(plan)

(* a plan of two test cases has been generated, stored and exported as JSON *)
C15_Witness ==
    /\ pc = "done"
    /\ Len(plan.test_cases) = 2
    /\ exported.status = 200 /\ exported.format = "json"
    /\ exported.history_id = history[Len(history)].id
    /\ loads(exported.content).v.f["generated_at"]
         = Str(isoformat(plan.generated_at))
    /\ Len(loads(exported.content).v.f["test_cases"].items) = 2

----------------------------------------------------------------------------
(* Properties of the local provider's model selection *)

(* C16: with no model configured the local provider lists the models and
   uses the first one for the generation request and for metadata.model; an
   empty list ends the call at once with the configuration error, with no
   generation request, no retry and no wait. *)
C16_FirstListedModelOrConfigurationError ==
    /\ [](/\ listRequests <= 1
          /\ listRequests = 1 => provider = "ollama"
          /\ (listRequests = 1 /\ models # <<>>) =>
                /\ model = models[1]
                /\ requests > 0 => sentModel = models[1]
                /\ pc = "returned" => plan.metadata.model = models[1]
          /\ (listRequests = 1 /\ models = <<>>
              /\ error.kind # "RequestError") =>
                /\ pc = "raised"
                /\ error = [kind |-> "NoModels", cause |-> "NoModels",
                            attempts |-> 0]
                /\ requests = 0 /\ sleeps = <<>> /\ failures = <<>>
                /\ attempt = 0 /\ plan = NoPlan)
    /\ [][error.kind = "NoModels" =>
            requests' = requests /\ sleeps' = sleeps /\ attempt' = attempt]_vars

(* the second of two listed models is not the one used *)
C16_Witness ==
    /\ pc = "returned"
    /\ provider = "ollama"
    /\ models = <<"phi3", "llama3">>
    /\ sentModel = "phi3"
    /\ plan.metadata.model = "phi3"

(* C17: a failed ticket fetch surfaces at once.  A request to the tracker
   goes out only where a fetch or generate request starts, once per request;
   when get_issue fails in the generate route no template is looked up, no
   provider request is made and no history record is written; when it fails
   in fetch_ticket the recent-tickets store is left as it was. *)
C17_FetchFailureSurfacesAtOnce ==
    /\ [](/\ req.calls <= 1
          /\ \A p \in Fetchers : fetcher[p].calls <= 1
          /\ (pc = "failed" /\ req.detail = "Failed to fetch ticket") =>
                /\ req.status = 400 /\ req.calls = 1
                /\ template_content = <<>>
                /\ requests = 0 /\ listRequests = 0 /\ sentModel = ""
                /\ plan = NoPlan)
    /\ [][/\ jiraCalls' # jiraCalls =>
                /\ jiraCalls' = jiraCalls + 1
                /\ \/ pc = "idle" /\ pc' = "get_issue"
                   \/ \E p \in Fetchers :
                        /\ fetcher[p].pc \in {"idle", "done"}
                        /\ fetcher'[p].pc = "get_issue"
          /\ (pc = "get_issue" /\ pc' = "failed") =>
                /\ history' = history
                /\ req'.detail = "Failed to fetch ticket"
          /\ (pc = "failed" /\ req.detail = "Failed to fetch ticket") =>
                history' = history /\ requests' = 0
          /\ \A p \in Fetchers :
                (fetcher[p].pc = "get_issue" /\ fetcher'[p].pc = "done") =>
                    /\ recent' = recent
                    /\ fetcher'[p].status = 400]_vars

(* both routes have answered 400 for a failed fetch, with a ticket in the
   store and the LLM configured *)
C17_Witness ==
    /\ pc = "failed"
    /\ req.detail = "Failed to fetch ticket"
    /\ req.calls = 1
    /\ llmSettings.stored
    /\ fetcher[1].pc = "done"
    /\ fetcher[1].status = 400
    /\ fetcher[1].calls = 1
    /\ fetcher[1].detail = "Failed to fetch ticket"
    /\ recent # {}
    /\ \A r \in recent : r.ticket_id # fetcher[1].ticket_id

(* C18: a reconfiguration replaces the process-wide tracker client as a
   whole and the last set_jira_client wins; a request that has obtained the
   client keeps it until its get_issue is over, and a request that starts
   takes the client that was set last. *)
C18_ClientReplacedWholesale ==
    [][/\ jiraClient' # jiraClient =>
            /\ \E q \in Savers :
                  /\ saver[q].pc = "set"
                  /\ jiraClient' = saver[q].cfg
                  /\ saver'[q].status = 200
            /\ pc' = pc /\ req' = req /\ fetcher' = fetcher
       /\ (pc = "get_issue" /\ pc' \in {"get_issue", "settings", "failed"}) =>
            req'.client = req.client
       /\ (pc = "idle" /\ pc' = "get_issue") => req'.client = jiraClient
       /\ \A p \in Fetchers :
            /\ (fetcher[p].pc = "get_issue"
                /\ fetcher'[p].pc \in {"get_issue", "commit", "done"}) =>
                  fetcher'[p].client = fetcher[p].client
            /\ (fetcher[p].pc \in {"idle", "done"}
                /\ fetcher'[p].pc = "get_issue") =>
                  fetcher'[p].client = jiraClient]_vars

(* get_issue of the generate route has returned with the client the request
   started with, after the process-wide client was replaced by another *)
C18_Witness ==
    /\ pc = "settings"
    /\ req.client = "site-a"
    /\ jiraClient = "site-b"
    /\ jiraSettings = "site-b"
    /\ issue.key = "QA-7"

----------------------------------------------------------------------------
(* Properties of the user prompt *)

(* C19: for both providers the user prompt holds, in this order, the ticket
   key, summary, description, priority, issue type, status, labels (joined
   with commas, or "None"), components (likewise), assignee (or
   "Unassigned"); then the acceptance criteria iff the issue has any; then
   the template text iff a template was supplied. *)
C19_UserPromptFields ==
    pc = "prompted" =>
        SelectSeq(prompt, LAMBDA g : g.kind # "instructions")
        = << Segment("key", issue.key),
             Segment("summary", issue.summary),
             Segment("description", issue.description),
             Segment("priority", issue.priority),
             Segment("issue_type", issue.issue_type),
             Segment("status", issue.status),
             Segment("labels", IF issue.labels = <<>> THEN "None"
                               ELSE IF Len(issue.labels) = 1
                               THEN issue.labels[1]
                               ELSE issue.labels[1] \o ", " \o issue.labels[2]),
             Segment("components", IF issue.components = <<>> THEN "None"
                                   ELSE issue.components[1] \o ", "
                                        \o issue.components[2]),
             Segment("assignee", IF issue.assignee \in {<<>>, <<"">>}
                                 THEN "Unassigned" ELSE issue.assignee[1]) >>
          \o (IF issue.acceptance_criteria # <<>>
              THEN <<Segment("acceptance_criteria",
                             issue.acceptance_criteria[1])>>
              ELSE <<>>)
          \o (IF template_content # <<>>
              THEN <<Segment("template", template_content[1])>>
              ELSE <<>>)

----------------------------------------------------------------------------
(* Properties of the rich-text flattening *)

(* C20 as stated: for all documents A and B, those with no text leaf and
   absent ones included, the flattening of A's and B's children as siblings
   is flatten(A), a single space, flatten(B). *)
C20_FlattenConcatenation ==
    pc = "flattened" => flat.ab = flat.a \o " " \o flat.b

(* C20 (amended): text leaves are collected depth-first in document order
   and joined with single spaces, so the flattening of A's and B's children
   as siblings is flatten(A), a single space, flatten(B) when both A and B
   hold a text leaf; when one of them holds none (or is absent) it is the
   flattening of the other, with no space added. *)
C20_FlattenConcatenationOfLeaves ==
    pc = "flattened" =>
        LET la == Len(traverse(adf.a))
            lb == Len(traverse(adf.b))
        IN  /\ la > 0 /\ lb > 0 => flat.ab = flat.a \o " " \o flat.b
            /\ la = 0 => flat.ab = flat.b
            /\ lb = 0 => flat.ab = flat.a
            /\ la = 0 => flat.a = ""
            /\ lb = 0 => flat.b = ""

C20_Witness ==
    /\ pc = "flattened"
    /\ adf.a = Doc(<<Nested(TextNode("b"), AdfDepth), TextNode("a")>>)
    /\ adf.b = Doc(<<TextNode(""), TextNode("b")>>)
    /\ flat.a = "b a"
    /\ flat.b = " b"
    /\ flat.ab = "b a  b"

----------------------------------------------------------------------------
(* Properties of the providers' connection tests *)

(* C21 as stated: test_connection of either provider never raises and
   returns a boolean; the hosted one returns true iff its completion
   request succeeds, the local one returns true iff the model-listing
   endpoint answers with a success status (2xx), and false on a transport
   error. *)
C21_TestConnectionReportsSuccess ==
    /\ pc # "raised"
    /\ pc = "tested" =>
        /\ error = NoError
        /\ result \in {BoolV(TRUE), BoolV(FALSE)}
        /\ provider = "groq" =>
              (result = BoolV(TRUE) <=> answer.kind = "response")
        /\ provider = "ollama" =>
              (result = BoolV(TRUE) <=>
                  answer.kind = "response" /\ answer.status \in 200..299)

(* C21 (amended): test_connection of either provider never raises and
   returns a boolean; the hosted one returns true iff its completion
   request succeeds, the local one returns true iff the model-listing
   endpoint answers with status 200 exactly (any other status, other 2xx
   included, gives false), and false with no exception on a transport
   error. *)
C21_TestConnectionReportsStatus200 ==
    /\ pc # "raised"
    /\ pc = "tested" =>
        /\ error = NoError
        /\ result \in {BoolV(TRUE), BoolV(FALSE)}
        /\ provider = "groq" =>
              (result = BoolV(TRUE) <=> answer.kind = "response")
        /\ provider = "ollama" =>
              (result = BoolV(TRUE) <=>
                  answer.kind = "response" /\ answer.status = 200)
        /\ answer.kind = "error" =>
              /\ result = BoolV(FALSE)
              /\ log # <<>>
              /\ log[Len(log)].cause = answer.cause

C21_Witness ==
    /\ pc = "tested"
    /\ provider = "ollama"
    /\ answer = Threw("ConnectError")
    /\ result = BoolV(FALSE)
    /\ error = NoError
    /\ Len(log) = 2
    /\ log[1].text = "Groq connection test failed"
    /\ requests = 1

----------------------------------------------------------------------------
(* Properties of the markdown export *)

(* the lines of a markdown export between the heading named from and the
   heading named to *)
Between(lines, from, to) ==
    LET i == CHOOSE n \in 1..Len(lines) :
                 lines[n].kind = "h2" /\ lines[n].s = from
        j == CHOOSE n \in 1..Len(lines) :
                 lines[n].kind = "h2" /\ lines[n].s = to
    IN  SubSeq(lines, i + 1, j - 1)

Headings(lines) ==
    LET h == SelectSeq(lines, LAMBDA l : l.kind = "h2")
    IN  [n \in 1..Len(h) |-> h[n].s]

(* C22: the markdown export of a plan with no risks has the line "No risks
   identified" under the Risks heading and no table header or rows; a plan
   with risks gets the three-column table, one row per risk in list order,
   and no placeholder. *)
C22_RisksPlaceholderOrTable ==
    (pc = "done" /\ exported.status = 200 /\ exported.format = "markdown") =>
        LET risks == plan.risks_mitigations
            body == Between(exported.content, "Risks & Mitigations",
                            "Test Schedule")
        IN  IF risks = <<>>
            THEN /\ body = <<Line("text", "No risks identified", 0)>>
                 /\ \A n \in 1..Len(exported.content) :
                       exported.content[n].kind
                           \notin {"risk_header", "risk_rule", "risk_row"}
            ELSE /\ Len(body) = Len(risks) + 2
                 /\ body[1] = Line("risk_header",
                                   "| Risk | Impact | Mitigation |", 0)
                 /\ body[2].kind = "risk_rule"
                 /\ \A n \in 1..Len(risks) :
                       body[n + 2] =
                         Line("risk_row",
                              risks[n].description \o " | " \o risks[n].impact
                              \o " | " \o risks[n].mitigation, 0)
                 /\ \A n \in 1..Len(exported.content) :
                       exported.content[n].s # "No risks identified"

C22_Witness ==
    /\ pc = "done"
    /\ exported.status = 200
    /\ exported.format = "markdown"
    /\ Len(plan.risks_mitigations) = 2
    /\ plan.risks_mitigations[2].impact = "Medium"
    /\ Between(exported.content, "Risks & Mitigations", "Test Schedule")[4].s
         = "Delay | Medium | "

(* C24: the markdown export renders the nine sections, Executive Summary
   to Resource Requirements in that order, iff the plan's executive summary
   is non-empty; a plan whose executive_summary is the empty string is
   rendered as a legacy plan, the header lines followed directly by the
   test cases.  The test cases are rendered in both cases. *)
C24_SectionsIffSummaryNonEmpty ==
    (pc = "done" /\ exported.status = 200 /\ exported.format = "markdown") =>
        LET c == exported.content
        IN  /\ IF plan.executive_summary # ""
               THEN Headings(c) =
                      << "Executive Summary", "Scope & Objectives",
                         "Test Strategy", "Test Environment",
                         "Entry Criteria", "Exit Criteria",
                         "Risks & Mitigations", "Test Schedule",
                         "Resource Requirements" >>
               ELSE /\ Headings(c) = <<>>
                    /\ Len(c) > 4
                    /\ c[5].kind = "rule"
                    /\ Len(c) > 5 => c[6].kind = "tc_heading"
            /\ Len(SelectSeq(c, LAMBDA l : l.kind = "tc_heading"))
                 = Len(plan.test_cases)

----------------------------------------------------------------------------
(* Properties of the local provider's normalization *)

(* C23: in the local provider, when a '{' and a '}' are found but the text
   from the first '{' to the last '}' does not parse, the whole raw text is
   tried as JSON, and the fallback plan is synthesized only if that fails
   too: a raw response that is valid JSON as a whole is never replaced by
   the fallback. *)
C23_WholeTextTriedBeforeFallback ==
    (provider = "ollama" /\ usedFallback) => ~loads(content).ok

----------------------------------------------------------------------------
(* Properties of the recent-tickets store under fetch_ticket *)

(* C25: a successful fetch of an id already in the recent-tickets store
   only refreshes that entry's fetched_at, no entry is added or removed; a
   successful fetch of a new id while the store holds 5 entries drops
   exactly the entry with the oldest fetched_at and adds the new id, so the
   store then holds the new id and the 4 most recently fetched previous
   ids. *)
C25_RefreshOrEvictOldest ==
    [][\A p \in Fetchers :
         (/\ fetcher[p].pc = "commit"
          /\ fetcher'[p].pc = "done"
          /\ fetcher'[p].status = 200) =>
            LET tid == fetcher[p].ticket_id
                ids == {r.ticket_id : r \in recent}
            IN  IF tid \in ids
                THEN /\ {r.ticket_id : r \in recent'} = ids
                     /\ Cardinality(recent') = Cardinality(recent)
                     /\ \A r \in recent : r.ticket_id # tid => r \in recent'
                     /\ \A r \in recent' :
                           r.ticket_id = tid => r \notin recent
                ELSE \E new \in recent' :
                        /\ new.ticket_id = tid
                        /\ \A r \in recent : new.fetched_at > r.fetched_at
                        /\ Cardinality(recent) < 5 =>
                              recent' = recent \cup {new}
                        /\ Cardinality(recent) = 5 =>
                              \E old \in recent :
                                 /\ \A r \in recent :
                                       old.fetched_at <= r.fetched_at
                                 /\ recent' = (recent \ {old}) \cup {new}
      ]_vars

(* on a full store from which the oldest entry has been evicted, a fetch of
   an id that is in the store has refreshed its entry *)
C25_Witness ==
    /\ Cardinality(recent) = 5
    /\ \A r \in recent : r.ticket_id # RecentKey(1)
    /\ \E p \in Fetchers :
          /\ fetcher[p].pc = "done"
          /\ fetcher[p].status = 200
          /\ fetcher[p].existing
          /\ fetcher[p].ticket_id = RecentKey(4)
          /\ \E r \in recent :
                /\ r.ticket_id = RecentKey(4)
                /\ r.fetched_at = fetcher[p].stamp
                /\ \A q \in recent : q.fetched_at <= r.fetched_at

----------------------------------------------------------------------------
(* Properties of the generate orchestrator *)

(* the steps of one request to the generate route, in order *)
OrchestratorSteps ==
    { <<"idle", "get_issue">>, <<"idle", "failed">>,
      <<"get_issue", "settings">>, <<"get_issue", "failed">>,
      <<"settings", "attempt">>, <<"settings", "list_models">>,
      <<"settings", "failed">>,
      <<"list_models", "attempt">>, <<"list_models", "raised">>,
      <<"attempt", "returned">>, <<"attempt", "sleeping">>,
      <<"attempt", "raised">>, <<"sleeping", "attempt">>,
      <<"returned", "done">>, <<"raised", "failed">>,
      <<"done", "idle">>, <<"failed", "idle">> }

(* C26: the orchestrator runs ticket fetch, template lookup, provider
   selection, generation, persistence in that order and persists only on
   success: a request that returns success has written exactly one history
   record, under a fresh id, whose plan equals the returned plan and whose
   provider_used is the plan's metadata.provider; a request that fails at
   any step has written none. *)
C26_PersistsOnlyOnSuccess ==
    [][/\ pc' # pc => <<pc, pc'>> \in OrchestratorSteps
       /\ (pc' = "settings" /\ pc # "settings") =>
             /\ req.calls = 1
             /\ issue' = IssueFor(req.ticket_id)
             /\ history' = history
       /\ (pc' = "attempt" /\ pc = "settings") =>
             /\ llmSettings.stored
             /\ provider' = req.provider
             /\ history' = history
       /\ (pc' = "done" /\ pc # "done") =>
             /\ Len(history') = Len(history) + 1
             /\ SubSeq(history', 1, Len(history)) = history
             /\ LET rec == history'[Len(history')]
                IN  /\ \A i \in 1..Len(history) : history[i].id # rec.id
                    /\ loads(rec.test_plan).ok
                    /\ loads(rec.test_plan).v = PlanDict(plan)
                    /\ rec.provider_used = plan.metadata.provider
                    /\ rec.ticket_id = issue.key
       /\ ~(pc' = "done" /\ pc # "done") => history' = history
       /\ (pc' = "failed" /\ pc # "failed") =>
             /\ history' = history
             /\ req'.detail \in {"JIRA not configured",
                                 "Failed to fetch ticket",
                                 "LLM not configured"}
                \/ error.kind = "GenerationFailed"
      ]_vars

C26_Witness ==
    /\ pc = "done"
    /\ Len(history) = 1
    /\ req.calls = 1
    /\ req.template_id = "tpl-1"
    /\ template_content # <<>>
    /\ llmSettings.stored
    /\ history[1].provider_used = "groq"
    /\ plan.metadata.provider = "groq"
    /\ loads(history[1].test_plan).v = PlanDict(plan)
    /\ failures # <<>>

----------------------------------------------------------------------------
(* Properties of the tracker client and the stored tracker configuration *)

(* C27: whenever no save_jira_config request is in progress, the
   process-wide tracker client was built from the JIRA configuration that
   is persisted in the settings store, and is unset iff none is persisted:
   after startup loading, after a save whose connection test fails, and
   after any interleaving of concurrent save_jira_config requests. *)
C27_ClientMatchesStoredConfig ==
    (pc = "idle" /\ \A q \in Savers : saver[q].pc \in {"idle", "done"}) =>
        jiraClient = jiraSettings

----------------------------------------------------------------------------
(* Properties of the test-case ids of a returned plan *)

(* C28: in every plan returned by generate_test_plan, of either provider,
   the test-case ids are pairwise distinct, for every raw test_cases list
   in which the ids the model supplied are distinct and any subset of the
   entries has no id. *)
C28_TestCaseIdsDistinct ==
    pc = "returned" =>
        ((\A i, j \in 1..Len(RawTestCases) :
             (/\ i # j
              /\ "id" \in DOMAIN RawTestCases[i].f
              /\ "id" \in DOMAIN RawTestCases[j].f) =>
                 RawTestCases[i].f["id"] # RawTestCases[j].f["id"])
         => \A i, j \in 1..Len(plan.test_cases) :
               i # j => plan.test_cases[i].id # plan.test_cases[j].id)

====
